---- MODULE Spec2Model ----
(***************************************************************************)
(* A model of vgx (rohansx/vgx): the AI-code detection engine              *)
(* (pkg/detection), the `vgx detect` and `vgx scan` commands (main.go,     *)
(* src/unnamed/part_000).                                                  *)
(*                                                                         *)
(* Numbers.  float64 scores are kept in fixed point: a score s in [0,1]    *)
(* is the integer s * ONE.  The raw style metrics are kept as exact        *)
(* rationals [num, den]; each style signal is rounded down to 1/SIG        *)
(* before it is weighted, every later step (the weighted sum, the          *)
(* 0.45/0.55 combination, the comparisons) is exact.                       *)
(*                                                                         *)
(* Text.  A source text is the sequence of its lines (strings.Split on     *)
(* "\n"), each line drawn from LineCatalog, a table of concrete lines      *)
(* with what the string functions and the regular expressions of the       *)
(* code compute on them (length, indent, tokens, matches).  For the lines  *)
(* of the catalog no regular expression matches across a line break, so    *)
(* the matches of a text are the matches of its lines in order.            *)
(***************************************************************************)
EXTENDS Integers, Sequences, FiniteSets, TLC

\* ------------------------------------------------------------------ bounds
\* Longest text, in lines.
MaxLines == 3
MaxBlankLines == 4

\* ------------------------------------------------------------ arithmetic
ONE == 10 * 1000 * 1000
SIG == 10 * 100
Pct(p) == p * (ONE \div 100)

Abs(x) == IF x < 0 THEN -x ELSE x
Min(a, b) == IF a < b THEN a ELSE b
\* func max(a, b int) int
Max(a, b) == IF a > b THEN a ELSE b

Range(s) == { s[i] : i \in DOMAIN s }
Rat(n, d) == [num |-> n, den |-> d]

RECURSIVE SqrtIter(_, _, _)
SqrtIter(x, lo, hi) ==
    IF lo >= hi THEN lo
    ELSE LET mid == (lo + hi + 1) \div 2
         IN  IF mid * mid <= x THEN SqrtIter(x, mid, hi)
             ELSE SqrtIter(x, lo, mid - 1)
\* floor of math.Sqrt on a non-negative integer
ISqrt(x) == SqrtIter(x, 0, Min(x, 46340))

RECURSIVE SumSeq(_)
SumSeq(s) == IF s = <<>> THEN 0 ELSE Head(s) + SumSeq(Tail(s))

RECURSIVE Flatten(_)
Flatten(ss) == IF ss = <<>> THEN <<>> ELSE Head(ss) \o Flatten(Tail(ss))

\* ------------------------------------------------------------------- text
\* The concrete lines.  len = len(line); blank = (strings.TrimSpace(line)
\* == ""); indent = len(line) - len(strings.TrimLeft(line, " \t"));
\* comment = the trimmed line starts with //, #, /* or *; tokens, camel,
\* snake = the matches of \b([a-z][a-zA-Z0-9_]*)\b and how many of them
\* are camelCase / snake_case; boiler = matches of the boilerplate
\* patterns; pats = matches of the pattern catalog, left to right, each
\* with the length of the matched string.
\*   blank    ""
\*   spaces   "   "
\*   errchk   "    if err != nil { return err }"
\*   snake    "  user_id = get_user(req_id)"
\*   camel    "\tuserName := getUser(reqId)"
\*   comment  "// Step 1: Validate the input data here"
\*   dense    "if err != nil { return err } " nine times
\*   longchk  "    if err != nil { return fmt.Errorf("could not open the
\*            configuration file %s: %w", path, err) }" (one line)
\*   mixed    "      x9 := my_Var + fooBar_2"
\*   ifopen   "    if err != nil {"
\*   retline  "        return err"
\*   closeline "    }"
\*   steps4   "   // 1: X // 1: X // 1: X // 1: X x1 x2 x3 x4 x5."
\*   steps15  "   " then "// 1: X " fifteen times, then seven dots
\*   steps1   "   // 1: X " then 119 dots
LineCatalog ==
    [ blank   |-> [len |-> 0, blank |-> TRUE, indent |-> 0, comment |-> FALSE,
                   tokens |-> 0, camel |-> 0, snake |-> 0, boiler |-> 0,
                   pats |-> <<>>],
      spaces  |-> [len |-> 3, blank |-> TRUE, indent |-> 3, comment |-> FALSE,
                   tokens |-> 0, camel |-> 0, snake |-> 0, boiler |-> 0,
                   pats |-> <<>>],
      errchk  |-> [len |-> 32, blank |-> FALSE, indent |-> 4, comment |-> FALSE,
                   tokens |-> 5, camel |-> 5, snake |-> 0, boiler |-> 1,
                   pats |-> << [name |-> "go_error_check", len |-> 28] >>],
      snake   |-> [len |-> 28, blank |-> FALSE, indent |-> 2, comment |-> FALSE,
                   tokens |-> 3, camel |-> 0, snake |-> 3, boiler |-> 0,
                   pats |-> <<>>],
      camel   |-> [len |-> 27, blank |-> FALSE, indent |-> 1, comment |-> FALSE,
                   tokens |-> 3, camel |-> 3, snake |-> 0, boiler |-> 0,
                   pats |-> <<>>],
      comment |-> [len |-> 39, blank |-> FALSE, indent |-> 0, comment |-> TRUE,
                   tokens |-> 4, camel |-> 4, snake |-> 0, boiler |-> 0,
                   pats |-> << [name |-> "numbered_steps", len |-> 12] >>],
      dense   |-> [len |-> 261, blank |-> FALSE, indent |-> 0, comment |-> FALSE,
                   tokens |-> 45, camel |-> 45, snake |-> 0, boiler |-> 9,
                   pats |-> [i \in 1..9 |-> [name |-> "go_error_check", len |-> 28]]],
      longchk |-> [len |-> 98, blank |-> FALSE, indent |-> 4, comment |-> FALSE,
                   tokens |-> 15, camel |-> 15, snake |-> 0, boiler |-> 1,
                   pats |-> << [name |-> "go_error_check", len |-> 94] >>],
      mixed   |-> [len |-> 29, blank |-> FALSE, indent |-> 6, comment |-> FALSE,
                   tokens |-> 3, camel |-> 0, snake |-> 0, boiler |-> 0,
                   pats |-> <<>>],
      ifopen  |-> [len |-> 19, blank |-> FALSE, indent |-> 4, comment |-> FALSE,
                   tokens |-> 3, camel |-> 3, snake |-> 0, boiler |-> 1,
                   pats |-> <<>>],
      retline |-> [len |-> 18, blank |-> FALSE, indent |-> 8, comment |-> FALSE,
                   tokens |-> 2, camel |-> 2, snake |-> 0, boiler |-> 0,
                   pats |-> <<>>],
      closeline |-> [len |-> 5, blank |-> FALSE, indent |-> 4, comment |-> FALSE,
                   tokens |-> 0, camel |-> 0, snake |-> 0, boiler |-> 0,
                   pats |-> <<>>],
      steps4  |-> [len |-> 50, blank |-> FALSE, indent |-> 3, comment |-> TRUE,
                   tokens |-> 5, camel |-> 0, snake |-> 0, boiler |-> 0,
                   pats |-> [i \in 1..4 |-> [name |-> "numbered_steps", len |-> 7]]],
      steps15 |-> [len |-> 130, blank |-> FALSE, indent |-> 3, comment |-> TRUE,
                   tokens |-> 0, camel |-> 0, snake |-> 0, boiler |-> 0,
                   pats |-> [i \in 1..15 |-> [name |-> "numbered_steps", len |-> 7]]],
      steps1  |-> [len |-> 130, blank |-> FALSE, indent |-> 3, comment |-> TRUE,
                   tokens |-> 0, camel |-> 0, snake |-> 0, boiler |-> 0,
                   pats |-> << [name |-> "numbered_steps", len |-> 7] >>] ]

\* The comment lines of numbered steps, which only the texts without any
\* style signal are made of.
StepKinds == {"steps4", "steps15", "steps1"}

\* The line kinds the other texts are made of.
LineKinds == DOMAIN LineCatalog \ StepKinds

\* The texts in which every style signal is 0: two comment lines of odd
\* indentation, 50 and 130 characters long, with five identifiers that are
\* neither camelCase nor snake_case, each followed by an empty line.
StyleZeroTexts ==
    { <<a, "blank", b, "blank">> : a \in {"steps4"}, b \in {"steps15", "steps1"} }
        \cup { <<b, "blank", a, "blank">> : a \in {"steps4"}, b \in {"steps15", "steps1"} }

\* The one catalog pattern a line of the model can leave unfinished.
OpenPattern == "go_error_check"

\* What a line is to a go_error_check match that runs over several lines
\* (if\s+err\s*!=\s*nil\s*\{[^}]*return[^}]*\}): open = the characters from
\* an "if err != nil {" that the line does not close to the end of the
\* line, 0 for none; ret = "return" stands before the first "}" of the
\* line or, without one, anywhere in it; close = the characters up to and
\* with the first "}", 0 for none.
Braces(kind) ==
    CASE kind = "ifopen"    -> [open |-> 15, ret |-> FALSE, close |-> 0]
      [] kind = "retline"   -> [open |-> 0,  ret |-> TRUE,  close |-> 0]
      [] kind = "closeline" -> [open |-> 0,  ret |-> FALSE, close |-> 5]
      [] kind = "errchk"    -> [open |-> 0,  ret |-> TRUE,  close |-> 32]
      [] kind = "dense"     -> [open |-> 0,  ret |-> TRUE,  close |-> 28]
      [] kind = "longchk"   -> [open |-> 0,  ret |-> TRUE,  close |-> 98]
      [] OTHER              -> [open |-> 0,  ret |-> FALSE, close |-> 0]

\* The lines of an error check written over several lines, and the
\* one-line check.
BraceKinds == {"ifopen", "retline", "closeline", "errchk"}

\* The texts of 2..MaxLines of these lines.
MultiLineTexts == UNION { [1..n -> BraceKinds] : n \in 2..MaxLines }

\* The texts of only empty lines: "" and up to MaxBlankLines - 1 newlines.
BlankTexts == { [i \in 1..n |-> "blank"] : n \in 1..MaxBlankLines }

\* The line kinds whose pattern matches lie in the line and are short
\* enough to be kept whole.
ShortMatchKinds == LineKinds \ {"longchk", "ifopen", "retline", "closeline"}

\* The texts with the line whose match is longer than a snippet: alone,
\* and before and after each other line.
LongMatchTexts ==
    {<<"longchk">>} \cup { <<"longchk", k>> : k \in LineKinds }
                   \cup { <<k, "longchk">> : k \in LineKinds }

\* Every text of 1..MaxLines lines with short matches (strings.Split never
\* returns no line), the blank texts, the texts with the long match, the
\* texts with matches over several lines and the texts without any style
\* signal.
Texts ==
    UNION { [1..n -> ShortMatchKinds] : n \in 1..MaxLines }
        \cup BlankTexts \cup LongMatchTexts \cup MultiLineTexts \cup StyleZeroTexts

Line(code, i) == LineCatalog[code[i]]

\* The indices of the lines with strings.TrimSpace(l) != "".
NonEmpty(code) == { i \in DOMAIN code : ~Line(code, i).blank }

RECURSIVE SumOver(_, _, _)
\* The sum of field f of the lines with index in S.
SumOver(code, S, f) ==
    IF S = {} THEN 0
    ELSE LET i == CHOOSE j \in S : TRUE
         IN  Line(code, i)[f] + SumOver(code, S \ {i}, f)

\* ------------------------------------------------------------- stylometry
\* An analyzeNaming that is neutral for up to 5 tokens
analyzeNaming_atMost5(code) ==
    LET matches   == SumOver(code, DOMAIN code, "tokens")
        camelCase == SumOver(code, DOMAIN code, "camel")
        snakeCase == SumOver(code, DOMAIN code, "snake")
    IN  IF matches <= 5 THEN Rat(1, 2)
        ELSE Rat(Max(camelCase, snakeCase), matches)

\* StyleAnalyzer.analyzeNaming
analyzeNaming(code) ==
    LET matches   == SumOver(code, DOMAIN code, "tokens")
        camelCase == SumOver(code, DOMAIN code, "camel")
        snakeCase == SumOver(code, DOMAIN code, "snake")
    IN  IF matches < 5 THEN Rat(1, 2)
        ELSE Rat(Max(camelCase, snakeCase), matches)

\* An analyzeIndentation without the neutral value for a text without
\* indented lines: all of its no lines count as consistent.
analyzeIndentation_vacuous(code) ==
    LET indents == NonEmpty(code)
        ind(i)  == Line(code, i).indent
        indentUnit ==
            IF \E i \in indents : ind(i) % 2 = 0 /\ ind(i) % 4 # 0 THEN 2 ELSE 4
        consistent == Cardinality({ i \in indents : ind(i) % indentUnit = 0 })
    IN  IF consistent = Cardinality(indents) THEN Rat(1, 1)
        ELSE Rat(consistent, Cardinality(indents))

\* StyleAnalyzer.analyzeIndentation
analyzeIndentation(code) ==
    LET indents == NonEmpty(code)
        ind(i)  == Line(code, i).indent
        indentUnit ==
            IF \E i \in indents : ind(i) % 2 = 0 /\ ind(i) % 4 # 0 THEN 2 ELSE 4
        consistent == Cardinality({ i \in indents : ind(i) % indentUnit = 0 })
    IN  IF indents = {} THEN Rat(1, 2)
        ELSE Rat(consistent, Cardinality(indents))

\* StyleAnalyzer.analyzeComments
analyzeComments(code) ==
    LET commentLines == Cardinality({ i \in DOMAIN code : Line(code, i).comment })
    IN  IF Len(code) = 0 THEN Rat(0, 1) ELSE Rat(commentLines, Len(code))

\* StyleAnalyzer.avgLineLength, over the non-empty lines
avgLineLength(code) ==
    LET lines == NonEmpty(code)
    IN  IF lines = {} THEN Rat(0, 1)
        ELSE Rat(SumOver(code, lines, "len"), Cardinality(lines))

\* StyleAnalyzer.lineLengthVariance, over the non-empty lines: the
\* population standard deviation sqrt(sum (len - avg)^2 / n), which is
\* sqrt(n * sum len^2 - (sum len)^2) / n, the root rounded down to 1/50.
lineLengthVariance(code) ==
    LET lines == NonEmpty(code)
        n     == Cardinality(lines)
        total == SumOver(code, lines, "len")
        RECURSIVE Squares(_)
        Squares(S) ==
            IF S = {} THEN 0
            ELSE LET i == CHOOSE j \in S : TRUE
                 IN  Line(code, i).len * Line(code, i).len + Squares(S \ {i})
    IN  IF n < 2 THEN Rat(0, 1)
        ELSE Rat(ISqrt((n * Squares(lines) - total * total) * 50 * 50), 50 * n)

\* StyleAnalyzer.analyzeBoilerplate: min(matches / (lineCount / 10), 1)
analyzeBoilerplate(code, lineCount) ==
    LET matches == SumOver(code, DOMAIN code, "boiler")
    IN  IF lineCount = 0 THEN Rat(0, 1)
        ELSE IF matches * 10 > lineCount THEN Rat(1, 1)
        ELSE Rat(matches * 10, lineCount)

\* StyleAnalyzer.emptyLineRatio
emptyLineRatio(code) ==
    LET empty == Cardinality({ i \in DOMAIN code : Line(code, i).blank })
    IN  IF Len(code) = 0 THEN Rat(0, 1) ELSE Rat(empty, Len(code))

\* StyleAnalyzer.Analyze
Analyze(code) ==
    [ NamingConsistency      |-> analyzeNaming(code),
      IndentationConsistency |-> analyzeIndentation(code),
      CommentDensity         |-> analyzeComments(code),
      AvgLineLength          |-> avgLineLength(code),
      LineLengthVariance     |-> lineLengthVariance(code),
      BoilerplateRatio       |-> analyzeBoilerplate(code, Len(code)),
      EmptyLineRatio         |-> emptyLineRatio(code) ]

\* A clip that bounds a signal from above only
Clip_upperOnly(r) == IF r.num > r.den THEN Rat(1, 1) ELSE r

\* math.Max(0, math.Min(1, v)) on a rational
Clip(r) ==
    IF r.num < 0 THEN Rat(0, 1)
    ELSE IF r.num > r.den THEN Rat(1, 1)
    ELSE r

\* 1 - math.Abs(r - a/b) * k
Peak(r, a, b, k) ==
    Rat(r.den * b - Abs(r.num * b - a * r.den) * k, r.den * b)

\* A rational in [0,1] as a signal, in 1/SIG, rounded down.
Sig(r) == (r.num * SIG) \div r.den

\* The weights of StyleMetrics.AIConfidence, in percent.
weights ==
    [ naming |-> 20, indentation |-> 20, boilerplate |-> 20, comment |-> 10,
      linevar |-> 15, emptyline |-> 10, linelen |-> 5 ]

\* The signals of StyleMetrics.AIConfidence after the clip to [0,1].
signals(m) ==
    [ naming      |-> Sig(Clip(m.NamingConsistency)),
      indentation |-> Sig(Clip(m.IndentationConsistency)),
      boilerplate |-> Sig(Clip(m.BoilerplateRatio)),
      comment     |-> Sig(Clip(Peak(m.CommentDensity, 15, 100, 5))),
      linevar     |-> Sig(Clip(Rat(30 * m.LineLengthVariance.den - m.LineLengthVariance.num,
                                   30 * m.LineLengthVariance.den))),
      emptyline   |-> Sig(Clip(Peak(m.EmptyLineRatio, 15, 100, 5))),
      linelen     |-> Sig(Clip(Rat(45 * m.AvgLineLength.den
                                     - Abs(m.AvgLineLength.num - 45 * m.AvgLineLength.den),
                                   45 * m.AvgLineLength.den))) ]

RECURSIVE WeightedSum(_, _)
WeightedSum(sig, keys) ==
    IF keys = {} THEN 0
    ELSE LET k == CHOOSE x \in keys : TRUE
         IN  sig[k] * weights[k] + WeightedSum(sig, keys \ {k})

\* StyleMetrics.AIConfidence, in 1/ONE
AIConfidence(m) ==
    WeightedSum(signals(m), DOMAIN weights) * (ONE \div (SIG * 100))

\* StyleMetrics.ConfidenceLevel
ConfidenceLevel(m) ==
    LET conf == AIConfidence(m)
    IN  IF conf > Pct(85) THEN "very_high"
        ELSE IF conf > Pct(70) THEN "high"
        ELSE IF conf > Pct(50) THEN "medium"
        ELSE IF conf > Pct(30) THEN "low"
        ELSE "very_low"

\* --------------------------------------------------------------- patterns
\* The catalog of NewPatternDetector, in order; weights in percent.
patterns ==
    << [name |-> "copilot_try_catch",       weight |-> 15],
       [name |-> "standard_error_throw",    weight |-> 12],
       [name |-> "async_await_fetch",       weight |-> 10],
       [name |-> "promise_chain",           weight |-> 8],
       [name |-> "jsdoc_complete",          weight |-> 10],
       [name |-> "inline_explanation",      weight |-> 8],
       [name |-> "arrow_with_types",        weight |-> 10],
       [name |-> "export_default_function", weight |-> 6],
       [name |-> "use_effect_deps",         weight |-> 8],
       [name |-> "use_state_destructure",   weight |-> 8],
       [name |-> "go_error_check",          weight |-> 12],
       [name |-> "go_defer",                weight |-> 8],
       [name |-> "go_struct_init",          weight |-> 8],
       [name |-> "python_docstring",        weight |-> 10],
       [name |-> "python_type_hints",       weight |-> 8],
       [name |-> "numbered_steps",          weight |-> 6],
       [name |-> "todo_ai_style",           weight |-> 5] >>

\* The snippet kept for a match of n characters: snippet[:80] + "..."
\* when n > 80.  Only the length is kept.
SnippetLen(n) == IF n > 80 THEN 80 + 3 ELSE n

RECURSIVE FindAllStringIndex(_, _, _)
\* The matches of catalog entry p from line i on, in text order, as
\* PatternMatches.  A line gives its own matches; a line that leaves the
\* pattern open starts a match that ends at the first "}" after it when a
\* "return" stands between, and that takes the first match of the closing
\* line with it; the search goes on after the match.
FindAllStringIndex(code, p, i) ==
    IF i > Len(code) THEN <<>>
    ELSE
        LET own(l) ==
                LET hits == SelectSeq(Line(code, l).pats, LAMBDA h : h.name = p.name)
                IN  [ j \in 1..Len(hits) |->
                        [ Name       |-> p.name,
                          Confidence |-> p.weight,
                          LineStart  |-> l,
                          LineEnd    |-> l,
                          Snippet    |-> SnippetLen(hits[j].len) ] ]
            closers == { l \in (i + 1)..Len(code) : Braces(code[l]).close > 0 }
            j       == CHOOSE l \in closers : \A m \in closers : l <= m
            found   == /\ p.name = OpenPattern
                       /\ Braces(code[i]).open > 0
                       /\ closers # {}
                       /\ \E l \in (i + 1)..j : Braces(code[l]).ret
            between == SumSeq([ l \in 1..(j - i - 1) |-> Line(code, i + l).len + 1 ])
            span    == [ Name       |-> p.name,
                         Confidence |-> p.weight,
                         LineStart  |-> i,
                         LineEnd    |-> j,
                         Snippet    |-> SnippetLen(Braces(code[i]).open + 1 + between
                                                     + Braces(code[j]).close) ]
        IN  IF found
            THEN own(i) \o <<span>>
                    \o (IF own(j) = <<>> THEN <<>> ELSE Tail(own(j)))
                    \o FindAllStringIndex(code, p, j + 1)
            ELSE own(i) \o FindAllStringIndex(code, p, i + 1)

\* Only the first match of catalog entry p, as p.pattern.FindStringIndex
\* gives it
MatchesOf_firstOnly(code, p) ==
    LET all == FindAllStringIndex(code, p, 1)
    IN  IF all = <<>> THEN <<>> ELSE << Head(all) >>

\* Matches with the count of newlines as the line number, without the
\* + 1
MatchesOf_zeroBased(code, p) ==
    LET all == FindAllStringIndex(code, p, 1)
    IN  [ k \in 1..Len(all) |->
            [ all[k] EXCEPT !.LineStart = @ - 1, !.LineEnd = @ - 1 ] ]

\* p.pattern.FindAllStringIndex(code, -1) turned into PatternMatches: the
\* matches of catalog entry p, in text order.
MatchesOf(code, p) == FindAllStringIndex(code, p, 1)

\* A Detect that does not cap the score at 1.0
Detect_uncapped(code) ==
    LET matches     == Flatten([ k \in 1..Len(patterns) |-> MatchesOf(code, patterns[k]) ])
        totalWeight == SumSeq([ k \in 1..Len(matches) |-> matches[k].Confidence ])
    IN  [ matches |-> matches, score |-> Pct(totalWeight) ]

\* A Detect in which a pattern counts once, however often it matches
Detect_oncePerPattern(code) ==
    LET matches     == Flatten([ k \in 1..Len(patterns) |-> MatchesOf(code, patterns[k]) ])
        hit         == SelectSeq(patterns, LAMBDA p : MatchesOf(code, p) # <<>>)
        totalWeight == SumSeq([ k \in 1..Len(hit) |-> hit[k].weight ])
        score       == IF totalWeight > 100 THEN 100 ELSE totalWeight
    IN  [ matches |-> matches, score |-> Pct(score) ]

\* PatternDetector.Detect: the matches and the score (in 1/ONE), capped
\* at 1.0.
Detect(code) ==
    LET matches     == Flatten([ k \in 1..Len(patterns) |-> MatchesOf(code, patterns[k]) ])
        totalWeight == SumSeq([ k \in 1..Len(matches) |-> matches[k].Confidence ])
        score       == IF totalWeight > 100 THEN 100 ELSE totalWeight
    IN  [ matches |-> matches, score |-> Pct(score) ]

\* PatternDetector.Detect on the catalog cat; Detect is DetectWith on the
\* catalog NewPatternDetector builds.
DetectWith(cat, code) ==
    LET matches     == Flatten([ k \in 1..Len(cat) |-> MatchesOf(code, cat[k]) ])
        totalWeight == SumSeq([ k \in 1..Len(matches) |-> matches[k].Confidence ])
        score       == IF totalWeight > 100 THEN 100 ELSE totalWeight
    IN  [ matches |-> matches, score |-> Pct(score) ]

\* --------------------------------------------------------------- detector
\* confidenceLevel with the 0.70 boundary on the wrong side
confidenceLevel_inclusive(conf) ==
    IF conf > Pct(85) THEN "very_high"
    ELSE IF conf >= Pct(70) THEN "high"
    ELSE IF conf > Pct(50) THEN "medium"
    ELSE IF conf > Pct(30) THEN "low"
    ELSE "very_low"

\* Detector.confidenceLevel
confidenceLevel(conf) ==
    IF conf > Pct(85) THEN "very_high"
    ELSE IF conf > Pct(70) THEN "high"
    ELSE IF conf > Pct(50) THEN "medium"
    ELSE IF conf > Pct(30) THEN "low"
    ELSE "very_low"

\* The two scores added without weights, capped at 1
Combine_unweighted(styleScore, patternScore) == Min(ONE, styleScore + patternScore)

\* The combination with the two weights exchanged
Combine_swapped(styleScore, patternScore) == (styleScore * 55 + patternScore * 45) \div 100

\* The combined score of Detector.AnalyzeCode:
\* styleScore*0.45 + patternScore*0.55
Combine(styleScore, patternScore) == (styleScore * 45 + patternScore * 55) \div 100

\* The verdict with a strict comparison
IsAIGenerated_strict(combined, t) == combined > t

\* The verdict of Detector.AnalyzeCode: combined >= d.threshold
IsAIGenerated(combined, t) == combined >= t

\* An AnalyzeCode that runs the pattern catalog only on files labelled
\* as Go sources
AnalyzeCode_byLabel(code, filename, t) ==
    LET styleScore   == AIConfidence(Analyze(code))
        det          == IF filename = "a.go" THEN Detect(code)
                        ELSE [matches |-> <<>>, score |-> 0]
        combined     == Combine(styleScore, det.score)
    IN  [ FilePath        |-> filename,
          AIConfidence    |-> combined,
          ConfidenceLevel |-> confidenceLevel(combined),
          StyleScore      |-> styleScore,
          PatternScore    |-> det.score,
          Patterns        |-> det.matches,
          IsAIGenerated   |-> IsAIGenerated(combined, t),
          LinesOfCode     |-> Len(code) ]

\* An AnalyzeCode that counts lines as a line scanner does: the empty
\* segment after a trailing newline is no line.
AnalyzeCode_scannerLines(code, filename, t) ==
    LET styleScore   == AIConfidence(Analyze(code))
        det          == Detect(code)
        combined     == Combine(styleScore, det.score)
    IN  [ FilePath        |-> filename,
          AIConfidence    |-> combined,
          ConfidenceLevel |-> confidenceLevel(combined),
          StyleScore      |-> styleScore,
          PatternScore    |-> det.score,
          Patterns        |-> det.matches,
          IsAIGenerated   |-> IsAIGenerated(combined, t),
          LinesOfCode     |-> IF code[Len(code)] = "blank" THEN Len(code) - 1
                              ELSE Len(code) ]

\* The Result Detector.AnalyzeCode returns, from the line count, the
\* style score and what Detect returned.
ResultOf(filename, lines, styleScore, det, t) ==
    LET patternScore == det.score
        combined     == Combine(styleScore, patternScore)
    IN  [ FilePath        |-> filename,
          AIConfidence    |-> combined,
          ConfidenceLevel |-> confidenceLevel(combined),
          StyleScore      |-> styleScore,
          PatternScore    |-> patternScore,
          Patterns        |-> det.matches,
          IsAIGenerated   |-> IsAIGenerated(combined, t),
          LinesOfCode     |-> lines ]

\* Detector.AnalyzeCode on a detector with threshold t
AnalyzeCode(code, filename, t) ==
    ResultOf(filename, Len(code), AIConfidence(Analyze(code)), Detect(code), t)

\* The zero value Result{}
ZeroResult ==
    [ FilePath |-> "", AIConfidence |-> 0, ConfidenceLevel |-> "", StyleScore |-> 0,
      PatternScore |-> 0, Patterns |-> <<>>, IsAIGenerated |-> FALSE, LinesOfCode |-> 0 ]

\* ------------------------------------------------------------------ state
VARIABLES
    pc,          \* where the program is
    threshold,   \* Detector.threshold, in 1/ONE
    call,        \* the arguments of the last AnalyzeCode call and the
                 \* receiver's threshold when it was made
    result,      \* the Result the last AnalyzeCode call returned
    probe,       \* the levels the two confidence-level functions gave
    content,     \* the file system: the text of every regular file
    unreadable,  \* the paths whose read (os.ReadFile, readDirNames) fails
    args,        \* the command line of the running vgx process
    exitCode,    \* its exit code once it has exited
    queue,       \* filepath.Walk: the paths still to visit, in order
    visited,     \* the paths the walk callback was called with, in order
    totalAILines,  \* ScanDirectory's local totalAILines
    totalLines,    \* ScanDirectory's local totalLines
    scanResult,  \* the ScanResult being built, then returned
    walkErr,     \* the error filepath.Walk returns to ScanDirectory
    ctx,         \* the context manager's store: the content kept per file
    gitChanged,  \* the files git reports as changed
    hasOpenAI,   \* whether OPENAI_API_KEY is set
    filesToScan, \* cmdScan: the files its loop has still to take
    allVulnerabilities,  \* cmdScan's allVulnerabilities
    scannedFiles,        \* cmdScan's scannedFiles
    hist,        \* what the runs of vgx scan so far did
    calls,       \* the AnalyzeCode calls in progress on the shared Detector
    catalog,     \* PatternDetector.patterns, the compiled catalog
    cacheDir,    \* package cache: the variable cacheDir
    cacheMu,     \* package cache: the RWMutex cacheMu, who holds it
    cacheFiles,  \* the <key>.json files of every cache directory
    now,         \* the wall clock, in ticks of TickHours hours
    gor,         \* the goroutines that call the cache, each one's position
    cacheOp,     \* the last step on the cache and what it returned
    lastStore    \* per path: what the last Store that succeeded stored

engineVars == <<threshold, call, result, probe>>
fsVars == <<content, unreadable>>
walkVars == <<queue, visited, totalAILines, totalLines, scanResult, walkErr>>
scanVars == <<ctx, gitChanged, hasOpenAI, filesToScan, allVulnerabilities, scannedFiles, hist>>
callVars == <<calls, catalog>>
cacheVars == <<cacheDir, cacheMu, cacheFiles, now, gor, cacheOp, lastStore>>
cliVars == <<fsVars, args, exitCode, walkVars, scanVars, callVars, cacheVars>>
vars == <<pc, engineVars, cliVars>>

\* The labels AnalyzeCode is called with.
Labels == {"a.go", "b.py"}

\* The thresholds SetThreshold is called with, in percent: the level
\* boundaries, the two ends of [0,1], and 91, the combined score of the
\* one-line text <<"dense">>.
ThresholdPcts == {0, 30, 50, 70, 85, 91, 100}

\* StyleMetrics values built by hand, whose AIConfidence runs over the
\* multiples of 0.05 from 0.10 to 0.90 and hits the level boundaries 0.30,
\* 0.50, 0.70 and 0.85 exactly: the three raw signals 0, 1/2 or 1, comment
\* density 7/20 (signal 0) or 3/20 (signal 1), line-length deviation 30
\* (signal 0) or 0 (signal 1), average line length 0 (signal 0) or 45
\* (signal 1), empty-line ratio 7/20 (signal 0).
ProbeMetrics ==
    { [ NamingConsistency      |-> Rat(a, 2),
        IndentationConsistency |-> Rat(b, 2),
        BoilerplateRatio       |-> Rat(c, 2),
        CommentDensity         |-> Rat(IF d = 1 THEN 3 ELSE 7, 20),
        LineLengthVariance     |-> Rat(IF e = 1 THEN 0 ELSE 30, 1),
        EmptyLineRatio         |-> Rat(7, 20),
        AvgLineLength          |-> Rat(IF f = 1 THEN 45 ELSE 0, 1) ]
      : a \in 0..2, b \in {0, 2}, c \in {1, 2}, d \in {0, 1}, e \in {0, 1},
        f \in {0, 1} }

\* StyleMetrics values built by hand that no Analyze returns: a raw signal
\* above 1 or below 0, the other signals at 1/2 or 0.
OutOfRangeMetrics ==
    { [ NamingConsistency      |-> Rat(a, 2),
        IndentationConsistency |-> Rat(b, 2),
        BoilerplateRatio       |-> Rat(c, 2),
        CommentDensity         |-> Rat(7, 20),
        LineLengthVariance     |-> Rat(30, 1),
        EmptyLineRatio         |-> Rat(7, 20),
        AvgLineLength          |-> Rat(0, 1) ]
      : a \in {-1, 1, 3}, b \in {-1, 1, 3}, c \in {-1, 1, 3} }
        \ { [ NamingConsistency      |-> Rat(1, 2),
              IndentationConsistency |-> Rat(1, 2),
              BoilerplateRatio       |-> Rat(1, 2),
              CommentDensity         |-> Rat(7, 20),
              LineLengthVariance     |-> Rat(30, 1),
              EmptyLineRatio         |-> Rat(7, 20),
              AvgLineLength          |-> Rat(0, 1) ] }

\* The threshold NewDetector sets: 0.70
NewDetectorThreshold == Pct(70)

NoCall == [code |-> <<>>, filename |-> "", threshold |-> 0]
NoProbe == [done |-> FALSE, metrics |-> <<>>, conf |-> 0, style |-> "", detector |-> ""]

\* --------------------------------------------------------------- float64
\* The style score as the float64 the code computes, for the texts whose
\* seven signals are multiples of 1/4: a float64 between 0 and 2 is a
\* natural number of units of 2^-67, written with three digits of base
\* 2^24, lowest first.  A sum or product is computed exactly and then
\* rounded to 53 significant bits, to nearest, ties to even, as IEEE 754
\* does.
BigDigitBits == 4 * 6
BigBase == 2 ^ BigDigitBits
BigUnitBits == 60 + 7
BigMantissa == 50 + 3
BigZero == <<0, 0, 0>>

BigAdd(a, b) ==
    LET s1 == a[1] + b[1]
        s2 == a[2] + b[2] + (s1 \div BigBase)
        s3 == a[3] + b[3] + (s2 \div BigBase)
    IN  <<s1 % BigBase, s2 % BigBase, s3 % BigBase>>

\* a * n for a small n
BigMul(a, n) ==
    LET s1 == a[1] * n
        s2 == a[2] * n + (s1 \div BigBase)
        s3 == a[3] * n + (s2 \div BigBase)
    IN  <<s1 % BigBase, s2 % BigBase, s3 % BigBase>>

\* a \div d and a % d for a small d
BigDiv(a, d) ==
    LET t3 == a[3]
        t2 == (t3 % d) * BigBase + a[2]
        t1 == (t2 % d) * BigBase + a[1]
    IN  [q |-> <<t1 \div d, t2 \div d, t3 \div d>>, r |-> t1 % d]

\* 2^k
BigPow2(k) ==
    [i \in 1..3 |-> IF i = (k \div BigDigitBits) + 1 THEN 2 ^ (k % BigDigitBits) ELSE 0]

\* The number of bits of a digit, and of a number
BitLen(n) == CHOOSE k \in 0..BigDigitBits : n < 2 ^ k /\ (k = 0 \/ n >= 2 ^ (k - 1))
BigBitLen(a) ==
    IF a[3] # 0 THEN 2 * BigDigitBits + BitLen(a[3])
    ELSE IF a[2] # 0 THEN BigDigitBits + BitLen(a[2])
    ELSE BitLen(a[1])

\* The float64 nearest to a + (a fraction of a unit, if sticky): the bits
\* below the 53 highest (they lie in the lowest digit) are dropped, to
\* nearest, ties to even.
Round64(a, sticky) ==
    LET k == BigBitLen(a) - BigMantissa
    IN  IF k <= 0 THEN a
        ELSE LET rem  == a[1] % (2 ^ k)
                 odd  == (a[1] \div (2 ^ k)) % 2 = 1
                 down == <<a[1] - rem, a[2], a[3]>>
                 up   == \/ 2 * rem > 2 ^ k
                         \/ 2 * rem = 2 ^ k /\ (sticky \/ odd)
             IN  IF up THEN BigAdd(down, BigPow2(k)) ELSE down

\* The float64 of the literal p/100, as the compiler rounds it
Float64OfPercent(p) ==
    LET x == BigDiv(BigMul(BigPow2(BigUnitBits), p), 100)
    IN  Round64(x.q, x.r # 0)

\* a + b and a * q/4 in float64
Float64Add(a, b) == Round64(BigAdd(a, b), FALSE)
Float64MulQuarters(a, q) ==
    LET x == BigDiv(BigMul(a, q), 4)
    IN  Round64(x.q, x.r # 0)

\* The signal as a number of quarters, for a signal that is one.
Quarters(r) == (Clip(r).num * 4) \div Clip(r).den
IsQuarters(r) == (Clip(r).num * 4) % Clip(r).den = 0

\* The seven signals of AIConfidence before clipping, as rationals
rawSignals(m) ==
    [ naming      |-> m.NamingConsistency,
      indentation |-> m.IndentationConsistency,
      boilerplate |-> m.BoilerplateRatio,
      comment     |-> Peak(m.CommentDensity, 15, 100, 5),
      linevar     |-> Rat(m.LineLengthVariance.den * 30 - m.LineLengthVariance.num,
                          m.LineLengthVariance.den * 30),
      emptyline   |-> Peak(m.EmptyLineRatio, 15, 100, 5),
      linelen     |-> Rat(m.AvgLineLength.den * 45 - Abs(m.AvgLineLength.num - 45 * m.AvgLineLength.den),
                          m.AvgLineLength.den * 45) ]

\* The keys of the weights map in the order of its literal.
weightKeys ==
    <<"naming", "indentation", "boilerplate", "comment", "linevar", "emptyline", "linelen">>

\* The orders a range over the weights map takes: the language leaves the
\* order open; the runtime starts at a random entry of the map's single
\* bucket and wraps around.
MapOrder(start) ==
    [i \in 1..Len(weightKeys) |-> weightKeys[((start + i - 2) % Len(weightKeys)) + 1]]
MapStarts == 1..Len(weightKeys)

RECURSIVE Sum64(_, _, _)
\* probability += signals[k] * w, over the first upto keys of order
Sum64(quarters, order, upto) ==
    IF upto = 0 THEN BigZero
    ELSE LET key  == order[upto]
             term == Float64MulQuarters(Float64OfPercent(weights[key]), quarters[key])
             prev == Sum64(quarters, order, upto - 1)
         IN  IF prev = BigZero THEN term ELSE Float64Add(prev, term)

\* StyleMetrics.AIConfidence in float64, summed in the map order that
\* starts at start, for metrics whose signals are quarters.
AIConfidence64(m, start) ==
    LET quarters == [k \in DOMAIN weights |-> Quarters(rawSignals(m)[k])]
    IN  Sum64(quarters, MapOrder(start), Len(weightKeys))

\* The texts AIConfidence64 is defined for.
HasQuarterSignals(code) ==
    \A k \in DOMAIN weights : IsQuarters(rawSignals(Analyze(code))[k])

\* ------------------------------------------------------------ file system
\* The tree the commands run on.  Every directory lists its entries in
\* the order filepath.Walk visits them (readDirNames sorts the names).
\*   .
\*   |- .git/hook.py
\*   |- a.go
\*   |- build                      (a regular file)
\*   |- lib/node_modules/pkg/index.js
\*   |- lib/src/app.ts
\*   |- lib/util.py
\*   `- notes.txt
Tree ==
    [ root     |-> [dir |-> TRUE,  name |-> ".",            ext |-> "",     parent |-> "",
                    children |-> <<"git", "a_go", "build", "lib", "notes">>],
      git      |-> [dir |-> TRUE,  name |-> ".git",         ext |-> ".git", parent |-> "root",
                    children |-> <<"hook">>],
      hook     |-> [dir |-> FALSE, name |-> "hook.py",      ext |-> ".py",  parent |-> "git",
                    children |-> <<>>],
      a_go     |-> [dir |-> FALSE, name |-> "a.go",         ext |-> ".go",  parent |-> "root",
                    children |-> <<>>],
      build    |-> [dir |-> FALSE, name |-> "build",        ext |-> "",     parent |-> "root",
                    children |-> <<>>],
      lib      |-> [dir |-> TRUE,  name |-> "lib",          ext |-> "",     parent |-> "root",
                    children |-> <<"modules", "src", "util">>],
      modules  |-> [dir |-> TRUE,  name |-> "node_modules", ext |-> "",     parent |-> "lib",
                    children |-> <<"pkg">>],
      pkg      |-> [dir |-> TRUE,  name |-> "pkg",          ext |-> "",     parent |-> "modules",
                    children |-> <<"index">>],
      index    |-> [dir |-> FALSE, name |-> "index.js",     ext |-> ".js",  parent |-> "pkg",
                    children |-> <<>>],
      src      |-> [dir |-> TRUE,  name |-> "src",          ext |-> "",     parent |-> "lib",
                    children |-> <<"app">>],
      app      |-> [dir |-> FALSE, name |-> "app.ts",       ext |-> ".ts",  parent |-> "src",
                    children |-> <<>>],
      util     |-> [dir |-> FALSE, name |-> "util.py",      ext |-> ".py",  parent |-> "lib",
                    children |-> <<>>],
      notes    |-> [dir |-> FALSE, name |-> "notes.txt",    ext |-> ".txt", parent |-> "root",
                    children |-> <<>>] ]

Paths == DOMAIN Tree
Files == { p \in Paths : ~Tree[p].dir }
Dirs  == { p \in Paths : Tree[p].dir }

\* A path no file or directory has.
Missing == "missing"

\* The texts the files hold.
AIText    == <<"dense">>
AIText2   == <<"dense", "errchk">>
HumanText == <<"camel", "snake", "comment">>
EmptyText == <<"blank">>
FileTexts == {AIText, AIText2, HumanText, EmptyText}

\* The files whose text varies; the others hold AIText.
VaryingFiles == {"a_go", "app", "util"}

\* The sets of paths whose read fails.
Unreadables == { {}, {"a_go"}, {"lib"}, {"util"} }

\* ScanDirectory's extensions
extensions ==
    { ".go", ".py", ".js", ".ts", ".tsx", ".jsx", ".java", ".kt", ".rs", ".rb",
      ".php", ".swift", ".cs", ".cpp", ".c" }

\* ScanDirectory's skipDirs
skipDirs ==
    { "node_modules", ".git", "vendor", "dist", "build", "__pycache__", ".next",
      "target" }

\* The zero value ScanResult{Results: make([]Result, 0)}; AIPercentage is
\* a rational.
ZeroScanResult ==
    [ FilesScanned |-> 0, AIDetected |-> 0, HumanWritten |-> 0, MaxAIConfidence |-> 0,
      AIPercentage |-> Rat(0, 1), Results |-> <<>> ]

\* Detector.AnalyzeFile on a readable file
AnalyzeFile(filepath, t) == AnalyzeCode(content[filepath], filepath, t)

\* ------------------------------------------------------------- vgx detect
NotExited == -1
NoArgs == [cmd |-> "", path |-> "", threshold |-> [set |-> FALSE, value |-> 0], format |-> ""]

\* fs.Float64("threshold", 70, ...): the default of the flag, in percent
thresholdFlagDefault == 70

\* *thresholdFlag
thresholdFlag(a) == IF a.threshold.set THEN a.threshold.value ELSE thresholdFlagDefault

\* The flag taken as a score without the division.
FlagToThreshold_raw(p) == p * ONE

\* *thresholdFlag / 100, as a score
FlagToThreshold(p) == Pct(p)

\* The command lines of vgx detect: the path, the threshold (omitted, or
\* given in percent) and the format.
DetectPaths == {"root", "lib", "modules", "pkg", "a_go", "notes", Missing}
DetectArgs ==
    { [cmd |-> "detect", path |-> p, threshold |-> t, format |-> f] :
        p \in DetectPaths,
        t \in { [set |-> FALSE, value |-> 0], [set |-> TRUE, value |-> 50],
                [set |-> TRUE, value |-> 91] },
        f \in {"text", "json"} }

\* -------------------------------------------------- vgx scan: environment
\* git ls-files, in its order
Tracked == <<"a_go", "build", "notes">>

\* isTextFile: the extensions of textExtensions
textExtensions ==
    { ".txt", ".md", ".js", ".jsx", ".ts", ".tsx", ".py", ".java", ".go", ".c", ".cpp",
      ".h", ".hpp", ".cs", ".php", ".rb", ".html", ".htm", ".css", ".scss", ".json",
      ".xml", ".yaml", ".yml", ".sh", ".bash", ".sql", ".rs", ".kt", ".swift" }
isTextFile(filePath) == Tree[filePath].ext \in textExtensions

\* The texts the scanner's model answers with a finding for.
VulnerableTexts == {AIText2}

\* The texts the files of a scanned repository hold, and get by an edit.
ScanTexts == {AIText2, HumanText}

\* The store's entry of a file it holds no context of.
NoContext == <<>>

NoHist == [runs |-> 0, found |-> {}, owed |-> {}]

\* No vgx scan has run: an empty store.
NoScan ==
    /\ ctx = [f \in Files |-> NoContext]
    /\ filesToScan = <<>>
    /\ allVulnerabilities = <<>>
    /\ scannedFiles = <<>>
    /\ hist = NoHist

\* The callers that share the Detector.
Callers == {"A", "B"}
IdleCall ==
    [ pc |-> "idle", code |-> <<>>, filename |-> "", lines |-> 0, styleScore |-> 0,
      styleScore64 |-> BigZero, patterns |-> <<>>, patternScore |-> 0,
      result |-> ZeroResult, overlapped |-> FALSE ]

\* NewDetector: the catalog is built, no call is in progress.
NoCalls ==
    /\ calls = [c \in Callers |-> IdleCall]
    /\ catalog = patterns

\* -------------------------------------------------------------- file cache
\* The directory Initialize("") takes, os.TempDir()/vgx-cache; another
\* directory; a directory os.MkdirAll fails on.
DefaultCacheDir == "tmp/vgx-cache"
OtherCacheDir == "alt"
BadCacheDir == "bad"
CacheDirs == {DefaultCacheDir, OtherCacheDir}

\* The files whose results are cached.
CachePaths == {"a_go", "util"}

\* The vulnerability lists stored, taken as values that encoding/json
\* returns as they were stored.
VulnLists == { <<>>, <<"finding">> }

\* The clock ticks once in 24 hours.
TickHours == 24 \div 1

\* The ticks the clock makes at most.
MaxClock == 2

\* The steps on the cache at most.
MaxOps == 6

\* The calls of concurrent callers at most.
MaxCalls == 4

\* createCacheKey: the SHA-256 of the path in hex, one key per path.
createCacheKey(filePath) == <<"sha256", filePath>>
CacheKeys == { createCacheKey(f) : f \in CachePaths }

\* The SHA-256 of a content in hex, one digest per content.
Sha256(text) == <<"sha256", text>>

\* No <key>.json file.
NoEntry ==
    [ present |-> FALSE, FilePath |-> "", FileHash |-> <<>>, Vulnerabilities |-> <<>>,
      Timestamp |-> 0 ]

\* The callers of the cache.
Goroutines == {"g1", "g2"}
NoMutexHolder == "none"
IdleGoroutine == [pc |-> "idle", op |-> "", arg |-> "", vulns |-> <<>>, seen |-> ""]

NoCacheOp ==
    [ op |-> "", path |-> "", found |-> FALSE, vulns |-> <<>>, err |-> "nil",
      touched |-> FALSE, n |-> 0 ]

NoStore == [stored |-> FALSE, vulns |-> <<>>, hash |-> <<>>, time |-> 0, live |-> FALSE]

\* The package cache when the program starts: cacheDir is "", the mutex
\* is free, the cache directories hold no file.
NoCache ==
    /\ cacheDir = ""
    /\ cacheMu = [writer |-> NoMutexHolder, readers |-> {}]
    /\ cacheFiles = [d \in CacheDirs |-> [k \in CacheKeys |-> NoEntry]]
    /\ now = 0
    /\ gor = [g \in Goroutines |-> IdleGoroutine]
    /\ cacheOp = NoCacheOp
    /\ lastStore = [f \in CachePaths |-> NoStore]

\* The nil error, filepath.SkipDir, and the errors lstat, readDirNames and
\* os.ReadFile fail with.
NilError == "nil"
SkipDir == "SkipDir"
ReadError == "read error"

\* No vgx detect has run.
NoWalk ==
    /\ queue = <<>>
    /\ visited = <<>>
    /\ totalAILines = 0
    /\ totalLines = 0
    /\ scanResult = ZeroScanResult
    /\ walkErr = NilError

\* A file system and no process yet.
InitDetect ==
    /\ pc = "idle"
    /\ threshold = 0
    /\ call = NoCall
    /\ result = ZeroResult
    /\ probe = NoProbe
    /\ content \in { c \in [Files -> FileTexts] :
                        \A f \in Files \ VaryingFiles : c[f] = AIText }
    /\ unreadable \in Unreadables
    /\ args = NoArgs
    /\ exitCode = NotExited
    /\ NoCalls
    /\ NoWalk
    /\ NoCache
    /\ NoScan
    /\ gitChanged = {}
    /\ hasOpenAI = FALSE

\* os.Exit(code)
Exit(code) ==
    /\ pc' = "exited"
    /\ exitCode' = code

\* cmdDetect up to os.Stat(path): the flags, NewDetector, SetThreshold.
DetectStart(a) ==
    /\ pc = "idle"
    /\ args' = a
    /\ threshold' = FlagToThreshold(thresholdFlag(a))
    /\ IF a.path \notin Paths
         THEN Exit(1)
         ELSE /\ pc' = IF Tree[a.path].dir THEN "scandir" ELSE "file"
              /\ UNCHANGED exitCode
    /\ UNCHANGED <<cacheVars, callVars, call, result, probe, fsVars, scanVars, walkVars>>

\* ScanDirectory up to the call of filepath.Walk
ScanDirectoryBegin ==
    /\ pc = "scandir"
    /\ scanResult' = ZeroScanResult
    /\ totalAILines' = 0
    /\ totalLines' = 0
    /\ queue' = <<args.path>>
    /\ visited' = <<>>
    /\ walkErr' = NilError
    /\ pc' = "walk"
    /\ UNCHANGED <<cacheVars, callVars, engineVars, fsVars, scanVars, args, exitCode>>

\* A walk that prunes nothing.
IsSkipDir_never(p) == FALSE

\* skipDirs[info.Name()]
IsSkipDir(p) == Tree[p].name \in skipDirs

\* A walk that analyzes every file.
HasKnownExt_any(p) == TRUE

\* extensions[filepath.Ext(path)]
HasKnownExt(p) == Tree[p].ext \in extensions

\* A callback that counts flagged files where the code counts their lines.
Aggregate_files(st, r) ==
    [ res |-> [ st.res EXCEPT
                  !.Results = Append(@, r),
                  !.FilesScanned = @ + 1,
                  !.AIDetected = IF r.IsAIGenerated THEN @ + 1 ELSE @,
                  !.HumanWritten = IF r.IsAIGenerated THEN @ ELSE @ + 1,
                  !.MaxAIConfidence = IF r.AIConfidence > @ THEN r.AIConfidence ELSE @ ],
      ai  |-> IF r.IsAIGenerated THEN st.ai + 1 ELSE st.ai,
      all |-> st.all + r.LinesOfCode ]

\* A callback that puts the newest Result first.
Aggregate_prepend(st, r) ==
    [ res |-> [ st.res EXCEPT
                  !.Results = <<r>> \o @,
                  !.FilesScanned = @ + 1,
                  !.AIDetected = IF r.IsAIGenerated THEN @ + 1 ELSE @,
                  !.HumanWritten = IF r.IsAIGenerated THEN @ ELSE @ + 1,
                  !.MaxAIConfidence = IF r.AIConfidence > @ THEN r.AIConfidence ELSE @ ],
      ai  |-> IF r.IsAIGenerated THEN st.ai + r.LinesOfCode ELSE st.ai,
      all |-> st.all + r.LinesOfCode ]

\* A callback that keeps the confidence of the last file as the maximum.
Aggregate_lastConfidence(st, r) ==
    [ res |-> [ st.res EXCEPT
                  !.Results = Append(@, r),
                  !.FilesScanned = @ + 1,
                  !.AIDetected = IF r.IsAIGenerated THEN @ + 1 ELSE @,
                  !.HumanWritten = IF r.IsAIGenerated THEN @ ELSE @ + 1,
                  !.MaxAIConfidence = r.AIConfidence ],
      ai  |-> IF r.IsAIGenerated THEN st.ai + r.LinesOfCode ELSE st.ai,
      all |-> st.all + r.LinesOfCode ]

\* A callback that counts every file as human-written, flagged or not.
Aggregate_humanAlways(st, r) ==
    [ res |-> [ st.res EXCEPT
                  !.Results = Append(@, r),
                  !.FilesScanned = @ + 1,
                  !.AIDetected = IF r.IsAIGenerated THEN @ + 1 ELSE @,
                  !.HumanWritten = @ + 1,
                  !.MaxAIConfidence = IF r.AIConfidence > @ THEN r.AIConfidence ELSE @ ],
      ai  |-> IF r.IsAIGenerated THEN st.ai + r.LinesOfCode ELSE st.ai,
      all |-> st.all + r.LinesOfCode ]

\* The body of the walk callback after a successful AnalyzeFile: r is
\* appended and counted.  st is [res, ai, all]: the ScanResult and the two
\* line totals.
Aggregate(st, r) ==
    [ res |-> [ st.res EXCEPT
                  !.Results = Append(@, r),
                  !.FilesScanned = @ + 1,
                  !.AIDetected = IF r.IsAIGenerated THEN @ + 1 ELSE @,
                  !.HumanWritten = IF r.IsAIGenerated THEN @ ELSE @ + 1,
                  !.MaxAIConfidence = IF r.AIConfidence > @ THEN r.AIConfidence ELSE @ ],
      ai  |-> IF r.IsAIGenerated THEN st.ai + r.LinesOfCode ELSE st.ai,
      all |-> st.all + r.LinesOfCode ]

\* A callback that returns the error of a failed read, which ends the walk.
WalkOn_abortOnError(p, rest) ==
    IF p \in unreadable THEN <<>>
    ELSE IF p \in Paths /\ Tree[p].dir /\ ~IsSkipDir(p) THEN Tree[p].children \o rest ELSE rest

\* filepath.Walk after the callback on p returned: nil after an error (a
\* failed lstat or readDirNames, a failed AnalyzeFile) and for a file, so
\* the walk goes on with the rest; SkipDir for a skip-listed directory,
\* which is not entered; another directory is entered, entries in order.
WalkOn(p, rest) ==
    IF p \in Paths /\ Tree[p].dir /\ p \notin unreadable /\ ~IsSkipDir(p)
    THEN Tree[p].children \o rest
    ELSE rest

\* The callback is called with an error (the lstat of a path that does not
\* exist, the readDirNames of a directory that cannot be read), or its
\* AnalyzeFile fails.
CallbackFails(p) ==
    \/ p \notin Paths
    \/ Tree[p].dir /\ p \in unreadable
    \/ ~Tree[p].dir /\ HasKnownExt(p) /\ p \in unreadable

\* A callback that hands the error it meets back to filepath.Walk.
WalkFn_returnsError(p) ==
    IF CallbackFails(p) THEN ReadError
    ELSE IF Tree[p].dir /\ IsSkipDir(p) THEN SkipDir
    ELSE NilError

\* What the walk callback returns for p: nil after an error, SkipDir for
\* a skip-listed directory, nil for every other directory and every file.
WalkFn(p) ==
    IF CallbackFails(p) THEN NilError
    ELSE IF Tree[p].dir /\ IsSkipDir(p) THEN SkipDir
    ELSE NilError

\* One call of the walk callback by filepath.Walk, on the next path: a
\* directory whose entries cannot be read comes with err and is left; a
\* skip-listed directory returns SkipDir and is not descended into; another
\* directory is descended into, entries in order; a file is analyzed when
\* its extension is known and it can be read.
WalkStep ==
    /\ pc = "walk"
    /\ queue # <<>>
    /\ LET p == Head(queue)
           analyze == p \in Paths /\ ~Tree[p].dir /\ HasKnownExt(p) /\ p \notin unreadable
           ret == WalkFn(p)
           goesOn == ret \in {NilError, SkipDir}
           st == IF analyze
                 THEN Aggregate([res |-> scanResult, ai |-> totalAILines, all |-> totalLines],
                                AnalyzeFile(p, threshold))
                 ELSE [res |-> scanResult, ai |-> totalAILines, all |-> totalLines]
       IN  /\ visited' = Append(visited, p)
           /\ queue' = IF goesOn THEN WalkOn(p, Tail(queue)) ELSE <<>>
           /\ walkErr' = IF goesOn THEN walkErr ELSE ret
           /\ scanResult' = st.res
           /\ totalAILines' = st.ai
           /\ totalLines' = st.all
    /\ UNCHANGED <<cacheVars, callVars, pc, engineVars, fsVars, scanVars, args, exitCode>>

\* ScanDirectory after filepath.Walk returned: AIPercentage, and the
\* return of the result and of Walk's error; cmdDetect exits 1 on an error.
ScanDirectoryReturn ==
    /\ pc = "walk"
    /\ queue = <<>>
    /\ scanResult' = IF totalLines > 0
                      THEN [scanResult EXCEPT !.AIPercentage = Rat(totalAILines * 100, totalLines)]
                      ELSE scanResult
    /\ IF walkErr # NilError
         THEN Exit(1)
         ELSE /\ pc' = "output"
              /\ UNCHANGED exitCode
    /\ UNCHANGED <<cacheVars, callVars, engineVars, fsVars, scanVars, args, queue, visited, totalAILines, totalLines, walkErr>>

\* boolToInt
boolToInt(b) == IF b THEN 1 ELSE 0

\* cmdDetect on a path that is no directory: AnalyzeFile and the
\* ScanResult built from its Result.
DetectFile ==
    /\ pc = "file"
    /\ IF args.path \in unreadable
         THEN /\ Exit(1)
              /\ UNCHANGED scanResult
         ELSE LET r == AnalyzeFile(args.path, threshold)
              IN  /\ scanResult' =
                        [ FilesScanned    |-> 1,
                          AIDetected      |-> boolToInt(r.IsAIGenerated),
                          HumanWritten    |-> boolToInt(~r.IsAIGenerated),
                          MaxAIConfidence |-> r.AIConfidence,
                          AIPercentage    |-> Rat(0, 1),
                          Results         |-> <<r>> ]
                  /\ pc' = "output"
                  /\ UNCHANGED exitCode
    /\ UNCHANGED <<cacheVars, callVars, engineVars, fsVars, scanVars, args, queue, visited, totalAILines, totalLines, walkErr>>

RECURSIVE SortByConfidence(_)
\* sort.Slice(result.Results, AIConfidence descending): an insertion sort
\* for fewer than 12 elements, which keeps equal scores in order.
SortByConfidence(rs) ==
    IF rs = <<>> THEN <<>>
    ELSE LET n      == Len(rs)
             sorted == SortByConfidence(SubSeq(rs, 1, n - 1))
             x      == rs[n]
             k      == Cardinality({ i \in 1..(n - 1) : sorted[i].AIConfidence >= x.AIConfidence })
         IN  SubSeq(sorted, 1, k) \o <<x>> \o SubSeq(sorted, k + 1, n - 1)

\* cmdDetect's output: JSON, or printDetectResults, which sorts the
\* Results in place; cmdDetect and main return, the process exits 0.
DetectOutput ==
    /\ pc = "output"
    /\ scanResult' = IF args.format = "json" THEN scanResult
                      ELSE [scanResult EXCEPT !.Results = SortByConfidence(@)]
    /\ Exit(0)
    /\ UNCHANGED <<cacheVars, callVars, engineVars, fsVars, scanVars, args, queue, visited, totalAILines, totalLines, walkErr>>

NextDetect ==
    \/ \E a \in DetectArgs : DetectStart(a)
    \/ ScanDirectoryBegin
    \/ WalkStep
    \/ ScanDirectoryReturn
    \/ DetectFile
    \/ DetectOutput

SpecDetect == InitDetect /\ [][NextDetect]_vars

\* ------------------------------------- ScanDirectory called on any root
\* The roots ScanDirectory is called with: every directory, a regular
\* file, and a path that does not exist.
WalkRoots == Dirs \cup {"a_go", Missing}

\* A Detector from NewDetector and a file system; ScanDirectory(root) is
\* called.
InitWalk ==
    /\ pc = "scandir"
    /\ threshold = NewDetectorThreshold
    /\ call = NoCall
    /\ result = ZeroResult
    /\ probe = NoProbe
    /\ content \in { c \in [Files -> FileTexts] :
                        \A f \in Files \ VaryingFiles : c[f] = AIText }
    /\ unreadable \in Unreadables
    /\ args \in { [NoArgs EXCEPT !.path = r] : r \in WalkRoots }
    /\ exitCode = NotExited
    /\ NoCalls
    /\ NoWalk
    /\ NoCache
    /\ NoScan
    /\ gitChanged = {}
    /\ hasOpenAI = FALSE

NextWalk ==
    \/ ScanDirectoryBegin
    \/ WalkStep
    \/ ScanDirectoryReturn

SpecWalk == InitWalk /\ [][NextWalk]_vars

\* ---------------------------------------------------------------- vgx scan
\* The runs of vgx scan one behaviour makes.
MaxRuns == 3

\* The command lines of vgx scan: --changes and --update-context, both
\* true by default.  Reports are not modelled.
ScanArgs ==
    { [cmd |-> "scan", changes |-> c, updateContext |-> u] : c \in BOOLEAN, u \in BOOLEAN }
DefaultFlags(a) == a.cmd = "scan" /\ a.changes /\ a.updateContext

\* A repository with an empty context store.
InitScan ==
    /\ pc = "idle"
    /\ threshold = 0
    /\ call = NoCall
    /\ result = ZeroResult
    /\ probe = NoProbe
    /\ content \in { c \in [Files -> {AIText} \cup ScanTexts] :
                        /\ \A f \in Files \ {"a_go", "notes"} : c[f] = AIText
                        /\ \A f \in {"a_go", "notes"} : c[f] \in ScanTexts }
    /\ unreadable = {}
    /\ args = NoArgs
    /\ exitCode = NotExited
    /\ NoCalls
    /\ NoWalk
    /\ NoCache
    /\ NoScan
    /\ gitChanged \in SUBSET Range(Tracked)
    /\ hasOpenAI \in BOOLEAN

\* contextManager.GetChangedFiles: the files git reports as changed
GetChangedFiles == SelectSeq(Tracked, LAMBDA f : f \in gitChanged)

\* getAllFiles: git ls-files
getAllFiles == Tracked

\* contextManager.HasFileChanged: the store holds another content, or none
HasFileChanged(file, contentStr) == ctx[file] # contentStr

\* contextManager.UpdateFileContext, as the new store
UpdateFileContext(file, contentStr) == [ctx EXCEPT ![file] = contentStr]

\* scanFile: with OPENAI_API_KEY the findings of ScanWithContext; without
\* it ScanContent, which asks no scanner and returns none.
scanFile(filePath, contentStr, openAI) ==
    IF openAI /\ contentStr \in VulnerableTexts THEN << [File |-> filePath] >> ELSE <<>>

\* cmdScan up to its loop: the flags, the context manager, the files to
\* scan; with --changes and no changed file the process exits 0.
ScanStart(a) ==
    /\ pc \in {"idle", "exited"}
    /\ hist.runs < MaxRuns
    /\ args' = a
    /\ allVulnerabilities' = <<>>
    /\ scannedFiles' = <<>>
    /\ IF a.changes /\ GetChangedFiles = <<>>
         THEN /\ Exit(0)
              /\ filesToScan' = <<>>
              /\ hist' = [runs |-> hist.runs + 1, found |-> {}, owed |-> hist.found]
         ELSE /\ pc' = "scanloop"
              /\ exitCode' = NotExited
              /\ filesToScan' = IF a.changes THEN GetChangedFiles ELSE getAllFiles
              /\ hist' = [hist EXCEPT !.runs = @ + 1, !.owed = hist.found]
    /\ UNCHANGED <<cacheVars, callVars, engineVars, fsVars, walkVars, ctx, gitChanged, hasOpenAI>>

\* The end of the loop body: the store after a file was scanned.
StoreAfterScan(file, contentStr, vulnerabilities) ==
    IF args.updateContext THEN UpdateFileContext(file, contentStr) ELSE ctx

\* One pass of cmdScan's loop: the file is left out when it is missing or
\* a directory, no text file, unreadable, or unchanged for the context
\* manager; otherwise it is scanned and its context updated.
ScanFileStep ==
    /\ pc = "scanloop"
    /\ filesToScan # <<>>
    /\ LET file == Head(filesToScan)
       IN  /\ filesToScan' = Tail(filesToScan)
           /\ IF \/ file \notin Files
                 \/ ~isTextFile(file)
                 \/ file \in unreadable
                 \/ ~HasFileChanged(file, content[file])
              THEN UNCHANGED <<scannedFiles, allVulnerabilities, ctx>>
              ELSE LET vulnerabilities == scanFile(file, content[file], hasOpenAI)
                   IN  /\ scannedFiles' = Append(scannedFiles, file)
                       /\ allVulnerabilities' = allVulnerabilities \o vulnerabilities
                       /\ ctx' = StoreAfterScan(file, content[file], vulnerabilities)
    /\ UNCHANGED <<cacheVars, callVars, pc, engineVars, fsVars, args, exitCode, walkVars, gitChanged, hasOpenAI, hist>>

\* cmdScan after its loop: exit 1 when vulnerabilities were collected,
\* else the return from main.
ScanFinish ==
    /\ pc = "scanloop"
    /\ filesToScan = <<>>
    /\ Exit(IF Len(allVulnerabilities) > 0 THEN 1 ELSE 0)
    /\ hist' = [hist EXCEPT !.found = IF DefaultFlags(args)
                                       THEN { allVulnerabilities[i].File : i \in DOMAIN allVulnerabilities }
                                       ELSE {}]
    /\ UNCHANGED <<cacheVars, callVars, engineVars, fsVars, args, walkVars, ctx, gitChanged, hasOpenAI,
                   filesToScan, allVulnerabilities, scannedFiles>>

\* Between two runs the developer edits a file.
EditFile(f, t) ==
    /\ pc \in {"idle", "exited"}
    /\ t # content[f]
    /\ content' = [content EXCEPT ![f] = t]
    /\ gitChanged' = gitChanged \cup {f}
    /\ hist' = [hist EXCEPT !.found = @ \ {f}]
    /\ UNCHANGED <<cacheVars, callVars, pc, engineVars, unreadable, args, exitCode, walkVars, ctx, hasOpenAI,
                   filesToScan, allVulnerabilities, scannedFiles>>

\* The pre-commit hook passed: git commits, nothing is changed any more.
Commit ==
    /\ pc = "exited"
    /\ args.cmd = "scan"
    /\ exitCode = 0
    /\ gitChanged # {}
    /\ gitChanged' = {}
    /\ UNCHANGED <<cacheVars, callVars, pc, engineVars, fsVars, args, exitCode, walkVars, ctx, hasOpenAI,
                   filesToScan, allVulnerabilities, scannedFiles, hist>>

NextScan ==
    \/ \E a \in ScanArgs : ScanStart(a)
    \/ ScanFileStep
    \/ ScanFinish
    \/ \E f \in {"a_go", "notes"}, t \in ScanTexts : EditFile(f, t)
    \/ Commit

SpecScan == InitScan /\ [][NextScan]_vars

\* ------------------------------------------- AnalyzeCode calls, step by step
\* The texts the callers analyze: their signals are quarters, so that the
\* float64 style score is defined.
CallTexts == { t \in {AIText, AIText2, EmptyText, <<"dense", "blank">>} : HasQuarterSignals(t) }

\* The thresholds SetThreshold gave the Detector before it was shared.
CallThresholds == { NewDetectorThreshold, Pct(50) }

\* A Detector shared by the callers, no call yet.
InitCalls ==
    /\ pc = "shared"
    /\ threshold \in CallThresholds
    /\ call = NoCall
    /\ result = ZeroResult
    /\ probe = NoProbe
    /\ content = [f \in Files |-> AIText]
    /\ unreadable = {}
    /\ args = NoArgs
    /\ exitCode = NotExited
    /\ NoCalls
    /\ NoWalk
    /\ NoCache
    /\ NoScan
    /\ gitChanged = {}
    /\ hasOpenAI = FALSE

\* Another call is in progress while c takes a step.
Overlaps(c) == \E d \in Callers \ {c} : calls[d].pc \notin {"idle", "done"}

\* AnalyzeCode is entered: the arguments, and the number of lines.
CallBegin(c, code, filename) ==
    /\ calls[c].pc = "idle"
    /\ calls' = [calls EXCEPT ![c] =
                    [ IdleCall EXCEPT !.pc = "style", !.code = code, !.filename = filename,
                                      !.lines = Len(code), !.overlapped = Overlaps(c) ]]
    /\ UNCHANGED <<cacheVars, pc, engineVars, fsVars, args, exitCode, walkVars, scanVars, catalog>>

\* styleAnalyzer.Analyze and metrics.AIConfidence: the range over the
\* weights map starts at start.
CallStyle(c, start) ==
    /\ calls[c].pc = "style"
    /\ LET metrics == Analyze(calls[c].code)
       IN  calls' = [calls EXCEPT ![c].pc = "patterns",
                                  ![c].styleScore = AIConfidence(metrics),
                                  ![c].styleScore64 = AIConfidence64(metrics, start),
                                  ![c].overlapped = @ \/ Overlaps(c)]
    /\ UNCHANGED <<cacheVars, pc, engineVars, fsVars, args, exitCode, walkVars, scanVars, catalog>>

\* A Detect that uses up the catalog entries it has tried.
CatalogAfterDetect_consumed(cat) == <<>>

\* The catalog after Detect ran over it: Detect only reads it.
CatalogAfterDetect(cat) == cat

\* patternDetector.Detect
CallPatterns(c) ==
    /\ calls[c].pc = "patterns"
    /\ LET det == DetectWith(catalog, calls[c].code)
       IN  calls' = [calls EXCEPT ![c].pc = "result",
                                  ![c].patterns = det.matches,
                                  ![c].patternScore = det.score,
                                  ![c].overlapped = @ \/ Overlaps(c)]
    /\ catalog' = CatalogAfterDetect(catalog)
    /\ UNCHANGED <<cacheVars, pc, engineVars, fsVars, args, exitCode, walkVars, scanVars>>

\* The combined score and the Result, with d.threshold as it is now.
CallReturn(c) ==
    /\ calls[c].pc = "result"
    /\ LET combined == Combine(calls[c].styleScore, calls[c].patternScore)
       IN  calls' = [calls EXCEPT
                       ![c].pc = "done",
                       ![c].overlapped = @ \/ Overlaps(c),
                       ![c].result =
                           [ FilePath        |-> calls[c].filename,
                             AIConfidence    |-> combined,
                             ConfidenceLevel |-> confidenceLevel(combined),
                             StyleScore      |-> calls[c].styleScore,
                             PatternScore    |-> calls[c].patternScore,
                             Patterns        |-> calls[c].patterns,
                             IsAIGenerated   |-> IsAIGenerated(combined, threshold),
                             LinesOfCode     |-> calls[c].lines ]]
    /\ UNCHANGED <<cacheVars, pc, engineVars, fsVars, args, exitCode, walkVars, scanVars, catalog>>

NextCalls ==
    \/ \E c \in Callers, code \in CallTexts, filename \in Labels : CallBegin(c, code, filename)
    \/ \E c \in Callers, start \in MapStarts : CallStyle(c, start)
    \/ \E c \in Callers : CallPatterns(c)
    \/ \E c \in Callers : CallReturn(c)

SpecCalls == InitCalls /\ [][NextCalls]_vars

\* NewDetector; no vgx process runs.
Init ==
    /\ pc = "new"
    /\ threshold = NewDetectorThreshold
    /\ call = NoCall
    /\ result = ZeroResult
    /\ probe = NoProbe
    /\ content = [f \in Files |-> AIText]
    /\ unreadable = {}
    /\ args = NoArgs
    /\ exitCode = NotExited
    /\ NoCalls
    /\ NoWalk
    /\ NoCache
    /\ NoScan
    /\ gitChanged = {}
    /\ hasOpenAI = FALSE

\* Detector.SetThreshold
SetThreshold(t) ==
    /\ pc = "new"
    /\ threshold' = t
    /\ UNCHANGED <<pc, call, result, probe, cliVars>>

\* A call d.AnalyzeCode(code, filename).  AnalyzeCode reads the detector
\* and writes nothing, so one call per detector shows every Result a call
\* can return.
CallAnalyzeCode(code, filename) ==
    /\ pc = "new"
    /\ result' = AnalyzeCode(code, filename, threshold)
    /\ call' = [code |-> code, filename |-> filename, threshold |-> threshold]
    /\ pc' = "analyzed"
    /\ UNCHANGED <<threshold, probe, cliVars>>

\* m.ConfidenceLevel() and d.confidenceLevel(m.AIConfidence()) on the
\* same metrics
ProbeLevels(m) ==
    /\ pc = "new"
    /\ probe' = [ done     |-> TRUE,
                  metrics  |-> m,
                  conf     |-> AIConfidence(m),
                  style    |-> ConfidenceLevel(m),
                  detector |-> confidenceLevel(AIConfidence(m)) ]
    /\ pc' = "probed"
    /\ UNCHANGED <<threshold, call, result, cliVars>>

Next ==
    \/ \E p \in ThresholdPcts : SetThreshold(Pct(p))
    \/ \E code \in Texts, filename \in Labels : CallAnalyzeCode(code, filename)
    \/ \E m \in ProbeMetrics \cup OutOfRangeMetrics : ProbeLevels(m)

Spec == Init /\ [][Next]_vars

\* ------------------------------------- the Go error idiom in a 20-line text
\* Half of the 20 lines are the idiom `    if err != nil { return err }`.
IdiomLines == 20 \div 2

\* What the other lines are drawn from: the catalog lines of up to 98
\* characters.
OtherKinds == LineKinds \ {"dense"}

Layouts == {"alternate", "idiomFirst", "idiomLast"}

\* A text of IdiomLines idiom lines and IdiomLines other lines, k of kind a
\* and the rest of kind b.
IdiomText(a, b, k, layout) ==
    LET idiom  == [i \in 1..IdiomLines |-> "errchk"]
        others == [i \in 1..IdiomLines |-> IF i <= k THEN a ELSE b]
    IN  CASE layout = "idiomFirst" -> idiom \o others
          [] layout = "idiomLast"  -> others \o idiom
          [] layout = "alternate"  ->
                [i \in 1..(2 * IdiomLines) |->
                    IF i % 2 = 1 THEN "errchk" ELSE others[i \div 2]]

IdiomTexts ==
    { IdiomText(a, b, k, layout) :
        a \in OtherKinds, b \in OtherKinds, k \in 0..IdiomLines, layout \in Layouts }

\* A Detector with the default threshold analyzes one of the texts.
NextIdiom ==
    \E code \in IdiomTexts, filename \in Labels : CallAnalyzeCode(code, filename)

SpecIdiom == Init /\ [][NextIdiom]_vars

\* ------------------------------------------------- file cache: operations
NotInitialized == "cache not initialized"
MkdirError == "failed to create cache directory"
OpenError == "open failed"

\* A cacheDir read while it is written, and the error of an operation that
\* ran on it.
Torn == "torn"
Undefined == "undefined"

\* 24*time.Hour, in ticks
cacheTTL == 24 \div TickHours

\* time.Since(entry.Timestamp) > 24*time.Hour
Expired(age) == age > cacheTTL

\* hashFile: the digest of the content, or the error of os.Open
hashFile(filePath) ==
    IF filePath \in unreadable
    THEN [hash |-> <<>>, err |-> OpenError]
    ELSE [hash |-> Sha256(content[filePath]), err |-> NilError]

\* What an operation returns, whether it opened, wrote or removed a
\* file, and the steps on the cache so far.
Returns(op, path, found, vulns, err, touched) ==
    [ op |-> op, path |-> path, found |-> found, vulns |-> vulns, err |-> err,
      touched |-> touched, n |-> cacheOp.n + 1 ]

\* Get after its read of cacheDir gave dir: the error without a directory,
\* the error of hashFile, a miss without a cache file, with another hash
\* or with an entry older than 24 hours, and the hit otherwise.
GetOn(dir, filePath) ==
    LET h     == hashFile(filePath)
        entry == cacheFiles[dir][createCacheKey(filePath)]
    IN  IF dir = "" THEN Returns("Get", filePath, FALSE, <<>>, NotInitialized, FALSE)
        ELSE IF dir \notin CacheDirs
        THEN Returns("Get", filePath, FALSE, <<>>, Undefined, TRUE)
        ELSE IF h.err # NilError THEN Returns("Get", filePath, FALSE, <<>>, h.err, TRUE)
        ELSE IF ~entry.present THEN Returns("Get", filePath, FALSE, <<>>, NilError, TRUE)
        ELSE IF entry.FileHash # h.hash
        THEN Returns("Get", filePath, FALSE, <<>>, NilError, TRUE)
        ELSE IF Expired(now - entry.Timestamp)
        THEN Returns("Get", filePath, FALSE, <<>>, NilError, TRUE)
        ELSE Returns("Get", filePath, TRUE, entry.Vulnerabilities, NilError, TRUE)

\* Store after its read of cacheDir gave dir: what it returns, the cache
\* files and the last stores after it.
StoreOn(dir, filePath, vulnerabilities) ==
    LET h == hashFile(filePath)
        fail(err, touched) ==
            [ ret   |-> Returns("Store", filePath, FALSE, <<>>, err, touched),
              files |-> cacheFiles, last |-> lastStore ]
    IN  IF dir = "" THEN fail(NotInitialized, FALSE)
        ELSE IF dir \notin CacheDirs THEN fail(Undefined, TRUE)
        ELSE IF h.err # NilError THEN fail(h.err, TRUE)
        ELSE [ ret   |-> Returns("Store", filePath, FALSE, <<>>, NilError, TRUE),
               files |-> [cacheFiles EXCEPT ![dir][createCacheKey(filePath)] =
                            [ present |-> TRUE, FilePath |-> filePath, FileHash |-> h.hash,
                              Vulnerabilities |-> vulnerabilities, Timestamp |-> now ]],
               last  |-> [lastStore EXCEPT ![filePath] =
                            [ stored |-> TRUE, vulns |-> vulnerabilities, hash |-> h.hash,
                              time |-> now, live |-> TRUE ]] ]

\* Invalidate after its read of cacheDir gave dir: the cache file of the
\* path is removed if it is there.
InvalidateOn(dir, filePath) ==
    IF dir = ""
    THEN [ ret   |-> Returns("Invalidate", filePath, FALSE, <<>>, NotInitialized, FALSE),
           files |-> cacheFiles, last |-> lastStore ]
    ELSE IF dir \notin CacheDirs
    THEN [ ret   |-> Returns("Invalidate", filePath, FALSE, <<>>, Undefined, TRUE),
           files |-> cacheFiles, last |-> lastStore ]
    ELSE [ ret   |-> Returns("Invalidate", filePath, FALSE, <<>>, NilError, TRUE),
           files |-> [cacheFiles EXCEPT ![dir][createCacheKey(filePath)] = NoEntry],
           last  |-> [lastStore EXCEPT ![filePath].live = FALSE] ]

\* Clear after its read of cacheDir gave dir: every .json file of the
\* directory is removed.
ClearOn(dir) ==
    IF dir = ""
    THEN [ ret   |-> Returns("Clear", "", FALSE, <<>>, NotInitialized, FALSE),
           files |-> cacheFiles, last |-> lastStore ]
    ELSE IF dir \notin CacheDirs
    THEN [ ret   |-> Returns("Clear", "", FALSE, <<>>, Undefined, TRUE),
           files |-> cacheFiles, last |-> lastStore ]
    ELSE [ ret   |-> Returns("Clear", "", FALSE, <<>>, NilError, TRUE),
           files |-> [cacheFiles EXCEPT ![dir] = [k \in CacheKeys |-> NoEntry]],
           last  |-> [f \in CachePaths |-> [lastStore[f] EXCEPT !.live = FALSE]] ]

\* The directory Initialize(dir) makes and takes.
InitializeDir(dir) == IF dir = "" THEN DefaultCacheDir ELSE dir

\* The variables no cache operation changes.
outsideCache == <<pc, engineVars, args, exitCode, walkVars, scanVars, callVars>>

\* ------------------------------------------ file cache: one caller at a time
\* Initialize(dir): MkdirAll, then cacheDir is set.
Initialize(dir) ==
    /\ cacheOp.n < MaxOps
    /\ IF InitializeDir(dir) = BadCacheDir
         THEN /\ cacheOp' = Returns("Initialize", dir, FALSE, <<>>, MkdirError, TRUE)
              /\ UNCHANGED cacheDir
         ELSE /\ cacheOp' = Returns("Initialize", dir, FALSE, <<>>, NilError, TRUE)
              /\ cacheDir' = InitializeDir(dir)
    /\ UNCHANGED <<outsideCache, fsVars, cacheMu, cacheFiles, now, gor, lastStore>>

\* Get(filePath)
Get(filePath) ==
    /\ cacheOp.n < MaxOps
    /\ cacheOp' = GetOn(cacheDir, filePath)
    /\ UNCHANGED <<outsideCache, fsVars, cacheDir, cacheMu, cacheFiles, now, gor, lastStore>>

\* Store(filePath, vulnerabilities)
Store(filePath, vulnerabilities) ==
    /\ cacheOp.n < MaxOps
    /\ LET r == StoreOn(cacheDir, filePath, vulnerabilities)
       IN  /\ cacheOp' = r.ret
           /\ cacheFiles' = r.files
           /\ lastStore' = r.last
    /\ UNCHANGED <<outsideCache, fsVars, cacheDir, cacheMu, now, gor>>

\* Clear()
Clear ==
    /\ cacheOp.n < MaxOps
    /\ LET r == ClearOn(cacheDir)
       IN  /\ cacheOp' = r.ret
           /\ cacheFiles' = r.files
           /\ lastStore' = r.last
    /\ UNCHANGED <<outsideCache, fsVars, cacheDir, cacheMu, now, gor>>

\* Invalidate(filePath)
Invalidate(filePath) ==
    /\ cacheOp.n < MaxOps
    /\ LET r == InvalidateOn(cacheDir, filePath)
       IN  /\ cacheOp' = r.ret
           /\ cacheFiles' = r.files
           /\ lastStore' = r.last
    /\ UNCHANGED <<outsideCache, fsVars, cacheDir, cacheMu, now, gor>>

\* The file is written with another content.
ModifyFile(filePath, text) ==
    /\ cacheOp.n < MaxOps
    /\ content[filePath] # text
    /\ content' = [content EXCEPT ![filePath] = text]
    /\ cacheOp' = Returns("Modify", "", FALSE, <<>>, NilError, TRUE)
    /\ UNCHANGED <<outsideCache, unreadable, cacheDir, cacheMu, cacheFiles, now, gor, lastStore>>

\* TickHours hours pass.
Tick ==
    /\ cacheOp.n < MaxOps
    /\ now < MaxClock
    /\ now' = now + 1
    /\ cacheOp' = Returns("Tick", "", FALSE, <<>>, NilError, FALSE)
    /\ UNCHANGED <<outsideCache, fsVars, cacheDir, cacheMu, cacheFiles, gor, lastStore>>

\* The files that are modified, and the contents they get.
ModifiedPaths == {"a_go"}
CacheTexts == {AIText, HumanText}

\* The program has started; the files to cache are there, one of them may
\* be unreadable.
InitCache ==
    /\ pc = "idle"
    /\ threshold = 0
    /\ call = NoCall
    /\ result = ZeroResult
    /\ probe = NoProbe
    /\ content = [f \in Files |-> AIText]
    /\ unreadable \in { {}, {"util"} }
    /\ args = NoArgs
    /\ exitCode = NotExited
    /\ NoCalls
    /\ NoWalk
    /\ NoCache
    /\ NoScan
    /\ gitChanged = {}
    /\ hasOpenAI = FALSE

NextCache ==
    \/ \E dir \in {"", OtherCacheDir, BadCacheDir} : Initialize(dir)
    \/ \E f \in CachePaths : Get(f)
    \/ \E f \in CachePaths, v \in VulnLists : Store(f, v)
    \/ Clear
    \/ \E f \in CachePaths : Invalidate(f)
    \/ \E f \in ModifiedPaths, t \in CacheTexts : ModifyFile(f, t)
    \/ Tick

SpecCache == InitCache /\ [][NextCache]_vars

\* ------------------------------------------- file cache: concurrent callers
LockedOps == {"Get", "Store", "Clear", "Invalidate"}

\* The calls the goroutines make.
CacheCalls ==
    { [op |-> "Initialize", arg |-> d, vulns |-> <<>>] : d \in {"", OtherCacheDir, BadCacheDir} }
        \cup { [op |-> "Get", arg |-> f, vulns |-> <<>>] : f \in CachePaths }
        \cup { [op |-> "Store", arg |-> f, vulns |-> <<"finding">>] : f \in CachePaths }
        \cup { [op |-> "Clear", arg |-> "", vulns |-> <<>>] }
        \cup { [op |-> "Invalidate", arg |-> f, vulns |-> <<>>] : f \in CachePaths }

\* The calls that have not returned.
InFlight == Cardinality({ g \in Goroutines : gor[g].pc # "idle" })

\* A goroutine calls a function of the package: Initialize goes to
\* MkdirAll, the others to their Lock or RLock.
CallCache(g, c) ==
    /\ gor[g].pc = "idle"
    /\ cacheOp.n + InFlight < MaxCalls
    /\ gor' = [gor EXCEPT ![g] = [ pc |-> IF c.op = "Initialize" THEN "mkdir" ELSE "lock",
                                   op |-> c.op, arg |-> c.arg, vulns |-> c.vulns, seen |-> "" ]]
    /\ UNCHANGED <<outsideCache, fsVars, cacheDir, cacheMu, cacheFiles, now, cacheOp, lastStore>>

\* Initialize: os.MkdirAll(dir, 0755); the error is returned.
MkdirAll(g) ==
    /\ gor[g].pc = "mkdir"
    /\ IF InitializeDir(gor[g].arg) = BadCacheDir
         THEN /\ gor' = [gor EXCEPT ![g] = IdleGoroutine]
              /\ cacheOp' = Returns("Initialize", gor[g].arg, FALSE, <<>>, MkdirError, TRUE)
         ELSE /\ gor' = [gor EXCEPT ![g].pc = "write"]
              /\ UNCHANGED cacheOp
    /\ UNCHANGED <<outsideCache, fsVars, cacheDir, cacheMu, cacheFiles, now, lastStore>>

\* Initialize: cacheDir = dir; return nil.  cacheMu is not taken.
SetCacheDir(g) ==
    /\ gor[g].pc = "write"
    /\ cacheDir' = InitializeDir(gor[g].arg)
    /\ gor' = [gor EXCEPT ![g] = IdleGoroutine]
    /\ cacheOp' = Returns("Initialize", gor[g].arg, FALSE, <<>>, NilError, TRUE)
    /\ UNCHANGED <<outsideCache, fsVars, cacheMu, cacheFiles, now, lastStore>>

\* cacheMu.RLock() of Get, cacheMu.Lock() of Store, Clear and Invalidate
LockCacheMu(g) ==
    /\ gor[g].pc = "lock"
    /\ cacheMu.writer = NoMutexHolder
    /\ IF gor[g].op = "Get"
         THEN cacheMu' = [cacheMu EXCEPT !.readers = @ \cup {g}]
         ELSE /\ cacheMu.readers = {}
              /\ cacheMu' = [cacheMu EXCEPT !.writer = g]
    /\ gor' = [gor EXCEPT ![g].pc = "read"]
    /\ UNCHANGED <<outsideCache, fsVars, cacheDir, cacheFiles, now, cacheOp, lastStore>>

\* The values a read of cacheDir by g can give: the variable's, and, while
\* another goroutine is at its unsynchronized write, that write's value
\* or a torn string.
ReadableCacheDir(g) ==
    {cacheDir}
        \cup { InitializeDir(gor[h].arg) : h \in { k \in Goroutines \ {g} : gor[k].pc = "write" } }
        \cup { Torn : h \in { k \in Goroutines \ {g} : gor[k].pc = "write" } }

\* if cacheDir == "": the read of cacheDir under the lock
ReadCacheDir(g) ==
    /\ gor[g].pc = "read"
    /\ \E d \in ReadableCacheDir(g) : gor' = [gor EXCEPT ![g].seen = d, ![g].pc = "run"]
    /\ UNCHANGED <<outsideCache, fsVars, cacheDir, cacheMu, cacheFiles, now, cacheOp, lastStore>>

\* The rest of Get, Store, Clear or Invalidate, and the deferred unlock.
RunLocked(g) ==
    /\ gor[g].pc = "run"
    /\ LET c == gor[g]
           same(ret) == [ret |-> ret, files |-> cacheFiles, last |-> lastStore]
           r == CASE c.op = "Get"        -> same(GetOn(c.seen, c.arg))
                  [] c.op = "Store"      -> StoreOn(c.seen, c.arg, c.vulns)
                  [] c.op = "Clear"      -> ClearOn(c.seen)
                  [] c.op = "Invalidate" -> InvalidateOn(c.seen, c.arg)
       IN  /\ cacheOp' = r.ret
           /\ cacheFiles' = r.files
           /\ lastStore' = r.last
    /\ cacheMu' = [ writer  |-> IF cacheMu.writer = g THEN NoMutexHolder ELSE cacheMu.writer,
                    readers |-> cacheMu.readers \ {g} ]
    /\ gor' = [gor EXCEPT ![g] = IdleGoroutine]
    /\ UNCHANGED <<outsideCache, fsVars, cacheDir, now>>

NextCacheRace ==
    \/ \E g \in Goroutines, c \in CacheCalls : CallCache(g, c)
    \/ \E g \in Goroutines : MkdirAll(g)
    \/ \E g \in Goroutines : SetCacheDir(g)
    \/ \E g \in Goroutines : LockCacheMu(g)
    \/ \E g \in Goroutines : ReadCacheDir(g)
    \/ \E g \in Goroutines : RunLocked(g)

SpecCacheRace == InitCache /\ [][NextCacheRace]_vars

\* ----------------------------------------------------------------- claims
Analyzed == pc = "analyzed"

Score01(x) == 0 <= x /\ x <= ONE

\* C1: for every input text, StyleScore, PatternScore and AIConfidence of
\* the Result returned by AnalyzeCode are each within [0,1].
C1_ScoresInUnitInterval ==
    Analyzed =>
        /\ Score01(result.StyleScore)
        /\ Score01(result.PatternScore)
        /\ Score01(result.AIConfidence)

\* C1 witness: a Result whose matches weigh 1.20 in total (ten matches of
\* go_error_check), so that the cap of the pattern score acted.
C1_Witness ==
    /\ Analyzed
    /\ Len(result.Patterns) = 10
    /\ result.PatternScore = ONE
    /\ result.AIConfidence < ONE

\* C2: for every input text, AIConfidence = StyleScore*0.45 +
\* PatternScore*0.55, with the two sub-scores reported in the same Result.
C2_CombinedIsWeightedSum ==
    Analyzed =>
        result.AIConfidence * 100 = result.StyleScore * 45 + result.PatternScore * 55

\* C2 witness: a Result with two different, non-zero sub-scores.
C2_Witness ==
    /\ Analyzed
    /\ result.StyleScore > 0
    /\ result.PatternScore > 0
    /\ result.StyleScore # result.PatternScore

\* C3: for every Result and every threshold t in [0,1] the detector had
\* when the analysis was made (the default 0.70 or a value set by
\* SetThreshold before the call), IsAIGenerated is true if and only if
\* AIConfidence >= t; a score equal to the threshold is flagged.
C3_VerdictIsThresholdTest ==
    Analyzed =>
        /\ Score01(call.threshold)
        /\ result.IsAIGenerated <=> (result.AIConfidence >= call.threshold)

\* C3 witness: a score exactly equal to a threshold set by SetThreshold,
\* flagged as AI.
C3_Witness ==
    /\ Analyzed
    /\ call.threshold # Pct(70)
    /\ result.AIConfidence = call.threshold
    /\ result.IsAIGenerated

\* The level of a score as the specification lists it.
Bucket(score) ==
    CASE score <= Pct(30)                      -> "very_low"
      [] Pct(30) < score /\ score <= Pct(50)   -> "low"
      [] Pct(50) < score /\ score <= Pct(70)   -> "medium"
      [] Pct(70) < score /\ score <= Pct(85)   -> "high"
      [] score > Pct(85)                       -> "very_high"

Levels == {"very_low", "low", "medium", "high", "very_high"}

\* C4: ConfidenceLevel is one of the five level strings and is the bucket
\* of the combined score AIConfidence (very_low <= 0.30 < low <= 0.50 <
\* medium <= 0.70 < high <= 0.85 < very_high); Detector.confidenceLevel and
\* StyleMetrics.ConfidenceLevel use the same boundaries.
C4_LevelIsBucketOfCombined ==
    /\ Analyzed =>
          /\ result.ConfidenceLevel \in Levels
          /\ result.ConfidenceLevel = Bucket(result.AIConfidence)
    /\ probe.done =>
          /\ probe.detector = Bucket(probe.conf)
          /\ probe.style = Bucket(probe.conf)

\* C4 witness: both functions asked for the level of exactly 0.70, the
\* upper end of medium.
C4_Witness ==
    /\ probe.done
    /\ probe.conf = Pct(70)
    /\ probe.detector = "medium"
    /\ probe.style = "medium"

\* A Result whose level is not the level of its style score.
C4_LevelNotOfStyleScore ==
    /\ Analyzed
    /\ result.ConfidenceLevel # Bucket(result.StyleScore)

\* ------------------------------------------------------------------------
\* vgx detect: states of a run on a directory, and of a run that returned
\* from its analysis.
DirRun == pc \in {"walk", "output", "exited"} /\ args.path \in Dirs
Returned == pc = "output" \/ (pc = "exited" /\ exitCode = 0)

RECURSIVE Ancestors(_)
\* The directories a path lies in.
Ancestors(p) ==
    IF Tree[p].parent = "" THEN {} ELSE {Tree[p].parent} \cup Ancestors(Tree[p].parent)

\* The directories a path lies in that are the walk's root or below it.
AncestorsFrom(p, root) == { d \in Ancestors(p) : d = root \/ root \in Ancestors(d) }

\* C5: the exit code of vgx detect follows the README table: 2 when the
\* run hit an error (the path does not exist, the file cannot be read), 1
\* when AI-generated code was found, 0 otherwise.
C5_ExitCodeTable ==
    pc = "exited" =>
        exitCode = IF args.path \notin Paths \/ (args.path \in Files /\ args.path \in unreadable)
                   THEN 2
                   ELSE IF scanResult.AIDetected > 0 THEN 1 ELSE 0

\* C7: vgx detect runs its detector with the threshold p/100 of the flag
\* --threshold p, and with 70/100, the threshold of NewDetector, when the
\* flag is omitted; every file it analyzed is flagged exactly when its
\* combined score is at least p/100.
C7_ThresholdIsFlagOver100 ==
    pc # "idle" =>
        LET p == IF args.threshold.set THEN args.threshold.value ELSE 70
            hundredth == ONE \div 100
        IN  /\ threshold = p * hundredth
            /\ ~args.threshold.set => threshold = NewDetectorThreshold
            /\ \A i \in DOMAIN scanResult.Results :
                   LET r == scanResult.Results[i]
                   IN  r.IsAIGenerated <=> (r.AIConfidence >= p * hundredth)

\* --threshold 91 and a file whose combined score is exactly 0.91: flagged.
C7_Witness ==
    /\ args.threshold.set
    /\ args.threshold.value = 91
    /\ \E i \in DOMAIN scanResult.Results :
          /\ scanResult.Results[i].AIConfidence = 91 * (ONE \div 100)
          /\ scanResult.Results[i].IsAIGenerated

RECURSIVE SumLines(_, _)
\* The sum of LinesOfCode over the Results, of the flagged ones only when
\* flaggedOnly.
SumLines(rs, flaggedOnly) ==
    IF rs = <<>> THEN 0
    ELSE (IF flaggedOnly /\ ~Head(rs).IsAIGenerated THEN 0 ELSE Head(rs).LinesOfCode)
         + SumLines(Tail(rs), flaggedOnly)

\* C8: the AIPercentage ScanDirectory returns is 100 times the lines of the
\* flagged files over the lines of all analyzed files, 0 when no line was
\* analyzed, and lies in [0, 100].
C8_AIPercentageIsLineWeighted ==
    (DirRun /\ Returned) =>
        LET ai  == SumLines(scanResult.Results, TRUE)
            all == SumLines(scanResult.Results, FALSE)
            pct == scanResult.AIPercentage
        IN  /\ pct.den > 0
            /\ 0 <= pct.num /\ pct.num <= 100 * pct.den
            /\ IF all = 0 THEN pct.num = 0
                          ELSE pct.num * all = ai * 100 * pct.den

\* A scan that returned flagged and unflagged files of different lengths.
C8_Witness ==
    /\ DirRun /\ Returned
    /\ scanResult.AIDetected > 0
    /\ scanResult.HumanWritten > 0
    /\ SumLines(scanResult.Results, TRUE) * 100 # scanResult.AIDetected * 100
    /\ 0 < scanResult.AIPercentage.num
    /\ scanResult.AIPercentage.num < 100 * scanResult.AIPercentage.den

C9_SkipList ==
    { "node_modules", ".git", "vendor", "dist", "build", "__pycache__", ".next", "target" }

\* A directory of the skip list at or below the walk's root that p lies in.
InSkippedDir(p, root) == \E d \in AncestorsFrom(p, root) : Tree[d].name \in C9_SkipList

\* A directory at or below the walk's root that p lies in and cannot be read.
InUnreadableDir(p, root) == \E d \in AncestorsFrom(p, root) : d \in unreadable

\* C9: ScanDirectory analyzes no file inside a directory of the skip list
\* at or below the root and does not descend into one, and it still walks
\* everything else: once it returned, every path at or below the root
\* outside the skip-listed (and the unreadable) directories was visited.
C9_SkipListPruned ==
    DirRun =>
        /\ \A i \in DOMAIN scanResult.Results :
               ~InSkippedDir(scanResult.Results[i].FilePath, args.path)
        /\ \A i \in DOMAIN visited : ~InSkippedDir(visited[i], args.path)
        /\ Returned =>
               \A p \in Paths :
                   (/\ p = args.path \/ args.path \in Ancestors(p)
                    /\ ~InSkippedDir(p, args.path)
                    /\ ~InUnreadableDir(p, args.path))
                   => p \in Range(visited)

\* A walk from the top that met lib/node_modules, did not enter it, and
\* analyzed its sibling lib/util.py.
C9_Witness ==
    /\ DirRun /\ Returned
    /\ args.path = "root"
    /\ "modules" \in Range(visited)
    /\ "pkg" \notin Range(visited)
    /\ \E i \in DOMAIN scanResult.Results : scanResult.Results[i].FilePath = "util"

C10_AllowList ==
    { ".go", ".py", ".js", ".ts", ".tsx", ".jsx", ".java", ".kt", ".rs", ".rb", ".php",
      ".swift", ".cs", ".cpp", ".c" }

\* C10: ScanDirectory analyzes and counts only files whose extension is in
\* the allow-list, whatever a file of another extension would score; vgx
\* detect on a single readable file analyzes it whatever its extension.
C10_ExtensionFilter ==
    /\ DirRun =>
          /\ \A i \in DOMAIN scanResult.Results :
                 Tree[scanResult.Results[i].FilePath].ext \in C10_AllowList
          /\ scanResult.FilesScanned = Len(scanResult.Results)
          /\ scanResult.FilesScanned =
                 Cardinality({ p \in Range(visited) :
                                 /\ p \in Files
                                 /\ Tree[p].ext \in C10_AllowList
                                 /\ p \notin unreadable })
    /\ (Returned /\ args.path \in Files) =>
          scanResult.Results = << AnalyzeCode(content[args.path], args.path, threshold) >>

\* A walk that visited notes.txt, a file AnalyzeFile flags, and returned
\* without a Result for it.
C10_Witness ==
    /\ DirRun /\ Returned
    /\ "notes" \in Range(visited)
    /\ AnalyzeFile("notes", threshold).IsAIGenerated
    /\ \A i \in DOMAIN scanResult.Results : scanResult.Results[i].FilePath # "notes"

\* vgx detect on notes.txt: analyzed and flagged.
C10_SingleFileAnalyzed ==
    /\ Returned
    /\ args.path = "notes"
    /\ scanResult.AIDetected = 1

\* C6: a file in which a run of vgx scan with default flags found
\* vulnerabilities keeps blocking: while its content is not changed, the
\* next run with default flags scans it again and exits 1.
C6_KeepsBlocking ==
    (pc = "exited" /\ DefaultFlags(args) /\ hist.owed # {}) =>
        /\ exitCode = 1
        /\ hist.owed \subseteq Range(scannedFiles)

\* C11: in a ScanDirectory walk a file whose read or stat fails adds
\* nothing: no Result, the counters, the maximum and the line totals stay
\* as they are, and the walk goes on with the next path; so once returned,
\* every readable file with a known extension outside the skip-listed and
\* unreadable directories has its Result, and none was lost.
C11_FailedFileAddsNothing ==
    /\ [][ (pc = "walk" /\ queue # <<>> /\ Head(queue) \in Files /\ Head(queue) \in unreadable)
            => /\ scanResult' = scanResult
               /\ totalAILines' = totalAILines
               /\ totalLines' = totalLines
               /\ pc' = "walk"
               /\ queue' = Tail(queue) ]_vars
    /\ [](DirRun =>
            /\ \A i \in DOMAIN scanResult.Results :
                   scanResult.Results[i].FilePath \notin unreadable
            /\ Returned =>
                   \A f \in Files :
                       (/\ args.path \in Ancestors(f)
                        /\ ~InSkippedDir(f, args.path)
                        /\ ~InUnreadableDir(f, args.path)
                        /\ Tree[f].ext \in C10_AllowList
                        /\ f \notin unreadable)
                       => \E i \in DOMAIN scanResult.Results :
                              scanResult.Results[i] = AnalyzeCode(content[f], f, threshold))

\* A walk from the top in which a.go could not be read: it has no Result,
\* and lib/util.py, visited later, has one.
C11_Witness ==
    /\ DirRun /\ Returned
    /\ args.path = "root"
    /\ "a_go" \in unreadable
    /\ "a_go" \in Range(visited)
    /\ \A i \in DOMAIN scanResult.Results : scanResult.Results[i].FilePath # "a_go"
    /\ \E i \in DOMAIN scanResult.Results : scanResult.Results[i].FilePath = "util"

\* C12: AnalyzeCode is deterministic: two calls with the same text, the
\* same label and the same threshold return the same Result, the style
\* score as the float64 it is included, whatever else was called on the
\* Detector and in whatever order the style signals were summed.
C12_SameInputSameResult ==
    \A c \in Callers, d \in Callers :
        (/\ calls[c].pc = "done" /\ calls[d].pc = "done"
         /\ calls[c].code = calls[d].code
         /\ calls[c].filename = calls[d].filename)
        => /\ calls[c].result = calls[d].result
           /\ calls[c].styleScore64 = calls[d].styleScore64

C14_SnippetAtMost80 ==
    Analyzed => \A i \in DOMAIN result.Patterns : result.Patterns[i].Snippet <= 80

\* C15: AnalyzeCode on the empty string returns a defined Result: one
\* line, no pattern match and PatternScore 0, every feature extractor at
\* 0 or at the neutral midpoint (the one line is empty, so the empty line
\* ratio is 1), StyleScore and AIConfidence no higher than 0.5, and not
\* flagged at the default threshold.
C15_EmptyStringDefined ==
    (Analyzed /\ call.code = <<"blank">>) =>
        LET m == Analyze(call.code)
        IN  /\ result.LinesOfCode = 1
            /\ result.Patterns = <<>>
            /\ result.PatternScore = 0
            /\ m.NamingConsistency = Rat(1, 2)
            /\ m.IndentationConsistency = Rat(1, 2)
            /\ m.CommentDensity = Rat(0, 1)
            /\ m.AvgLineLength = Rat(0, 1)
            /\ m.LineLengthVariance = Rat(0, 1)
            /\ m.BoilerplateRatio = Rat(0, 1)
            /\ m.EmptyLineRatio = Rat(1, 1)
            /\ result.StyleScore = AIConfidence(m)
            /\ 0 <= result.StyleScore /\ 2 * result.StyleScore <= ONE
            /\ 0 <= result.AIConfidence /\ 2 * result.AIConfidence <= ONE
            /\ (call.threshold = NewDetectorThreshold => ~result.IsAIGenerated)

\* The empty string analyzed by a Detector with the default threshold.
C15_Witness ==
    /\ Analyzed
    /\ call.code = <<"blank">>
    /\ call.threshold = NewDetectorThreshold
    /\ result.LinesOfCode = 1
    /\ ~result.IsAIGenerated

\* The number of newline characters of a text: one between each two
\* consecutive lines.
Newlines(code) == Len(code) - 1

\* The text of three newlines: four empty lines.
ThreeNewlines == <<"blank", "blank", "blank", "blank">>

\* C16: LinesOfCode is the number of newline characters of the text plus
\* one, an empty final segment after a trailing newline included; three
\* newlines give LinesOfCode = 4, are not flagged at the default
\* threshold and get a level no higher than low.
C16_LinesAreNewlinesPlusOne ==
    Analyzed =>
        /\ result.LinesOfCode = Newlines(call.code) + 1
        /\ call.code = ThreeNewlines =>
              /\ result.LinesOfCode = 4
              /\ result.ConfidenceLevel \in {"very_low", "low"}
              /\ (call.threshold = NewDetectorThreshold => ~result.IsAIGenerated)

\* Three newlines analyzed by a Detector with the default threshold.
C16_Witness ==
    /\ Analyzed
    /\ call.code = ThreeNewlines
    /\ call.threshold = NewDetectorThreshold
    /\ result.LinesOfCode = 4
    /\ ~result.IsAIGenerated

\* C17: concurrent AnalyzeCode calls on one shared Detector need no
\* synchronization: no step of a call changes the catalog or the
\* threshold, the catalog stays as NewPatternDetector built it, and each
\* call, however its steps interleave with another call's, returns the
\* Result it returns when run alone (the style score one of the float64
\* sums a call alone can give).
C17_ConcurrentCallsAlone ==
    /\ [][catalog' = catalog /\ threshold' = threshold]_vars
    /\ [](/\ catalog = patterns
          /\ \A c \in Callers :
                calls[c].pc = "done" =>
                    /\ calls[c].result =
                           AnalyzeCode(calls[c].code, calls[c].filename, threshold)
                    /\ \E start \in MapStarts :
                           calls[c].styleScore64 =
                               AIConfidence64(Analyze(calls[c].code), start))

\* Two calls on different texts that overlapped, both returned: one
\* flagged with pattern matches, one on the empty string.
C17_Witness ==
    /\ pc = "shared"
    /\ calls["A"].pc = "done" /\ calls["B"].pc = "done"
    /\ calls["A"].overlapped /\ calls["B"].overlapped
    /\ calls["A"].code = AIText /\ calls["B"].code = EmptyText
    /\ calls["A"].result.IsAIGenerated
    /\ calls["A"].result.Patterns # <<>>
    /\ calls["B"].result.Patterns = <<>>

\* Every non-blank line is indented by a multiple of four.
FourSpaceIndented(code) == \A i \in NonEmpty(code) : Line(code, i).indent % 4 = 0

\* The case of C18: 20 lines, at least 10 of them the idiom, consistent
\* 4-space indentation, default threshold.
IdiomCase ==
    /\ Analyzed
    /\ Len(call.code) = 20
    /\ Cardinality({ i \in DOMAIN call.code : call.code[i] = "errchk" }) >= 10
    /\ FourSpaceIndented(call.code)
    /\ call.threshold = NewDetectorThreshold

\* C18: a 20-line text with 10 lines `if err != nil { return err }` and
\* consistent 4-space indentation has PatternScore capped at 1.0 and a
\* combined score of at least 0.70, so it is flagged at the default
\* threshold, whatever the other 10 lines are.
C18_IdiomTextFlagged ==
    IdiomCase =>
        /\ result.PatternScore = ONE
        /\ result.AIConfidence >= Pct(70)
        /\ result.IsAIGenerated

\* The idiom alternating with snake_case-free comment lines and blank
\* lines, flagged.
C18_Witness ==
    /\ IdiomCase
    /\ call.code = IdiomText("comment", "blank", 5, "alternate")
    /\ Len(result.Patterns) >= 10
    /\ result.IsAIGenerated

\* ScanDirectory is running or has returned to cmdDetect, which has not
\* printed yet.
InScanDirectory == pc \in {"walk", "output"} /\ args.path \in Dirs

\* The files the walk has visited and analyzed, in the order of the visits.
AnalyzedFiles ==
    SelectSeq(visited, LAMBDA p : /\ p \in Files
                                  /\ Tree[p].ext \in C10_AllowList
                                  /\ p \notin unreadable)

\* C19: the Results of ScanDirectory hold exactly one Result per analyzed
\* file, in the order the walk visited the files, no file twice; a step of
\* the walk only appends, it never reorders what is there.
C19_ResultsInWalkOrder ==
    /\ [][pc = "walk" =>
            /\ Len(scanResult'.Results) >= Len(scanResult.Results)
            /\ SubSeq(scanResult'.Results, 1, Len(scanResult.Results)) = scanResult.Results]_vars
    /\ [](InScanDirectory =>
            /\ Len(scanResult.Results) = Len(AnalyzedFiles)
            /\ \A i \in DOMAIN scanResult.Results :
                  scanResult.Results[i] =
                      AnalyzeCode(content[AnalyzedFiles[i]], AnalyzedFiles[i], threshold)
            /\ \A i \in DOMAIN scanResult.Results, j \in DOMAIN scanResult.Results :
                  i # j => scanResult.Results[i].FilePath # scanResult.Results[j].FilePath
            /\ \A i \in DOMAIN visited, j \in DOMAIN visited :
                  i # j => visited[i] # visited[j])

\* A returned walk of several files whose Results are not in the order of
\* their scores: a later file has the higher confidence.
C19_Witness ==
    /\ InScanDirectory /\ pc = "output"
    /\ Len(scanResult.Results) >= 3
    /\ \E i \in DOMAIN scanResult.Results, j \in DOMAIN scanResult.Results :
          /\ i < j
          /\ scanResult.Results[i].AIConfidence < scanResult.Results[j].AIConfidence

\* The maximum of AIConfidence over a list of Results, 0 for none.
RECURSIVE MaxConfidence(_)
MaxConfidence(rs) ==
    IF rs = <<>> THEN 0 ELSE Max(Head(rs).AIConfidence, MaxConfidence(Tail(rs)))

\* C20: MaxAIConfidence is the maximum of AIConfidence over the Results,
\* 0 when no file was analyzed: after each file it is the maximum over the
\* files aggregated so far, and it never decreases during the walk.
C20_MaxIsRunningMaximum ==
    /\ [][pc = "walk" => scanResult'.MaxAIConfidence >= scanResult.MaxAIConfidence]_vars
    /\ [](InScanDirectory =>
            scanResult.MaxAIConfidence = MaxConfidence(scanResult.Results))

\* A returned walk whose maximum comes from a file that is not the last
\* one analyzed.
C20_Witness ==
    /\ InScanDirectory /\ pc = "output"
    /\ Len(scanResult.Results) >= 2
    /\ scanResult.MaxAIConfidence > scanResult.Results[Len(scanResult.Results)].AIConfidence
    /\ scanResult.MaxAIConfidence = scanResult.Results[1].AIConfidence

\* A returned walk that analyzed no file.
C20_WitnessNone ==
    /\ InScanDirectory /\ pc = "output"
    /\ scanResult.Results = <<>>
    /\ scanResult.MaxAIConfidence = 0

\* clamp(num/den) to [0,1], in 1/SIG, rounded down.
Clamp(num, den) ==
    IF num < 0 THEN 0 ELSE IF num > den THEN SIG ELSE (num * SIG) \div den

\* The weighted sum of C21 on metrics m, in 1/ONE.
C21_Formula(m) ==
    LET naming      == Clamp(m.NamingConsistency.num, m.NamingConsistency.den)
        indentation == Clamp(m.IndentationConsistency.num, m.IndentationConsistency.den)
        boilerplate == Clamp(m.BoilerplateRatio.num, m.BoilerplateRatio.den)
        cd          == m.CommentDensity
        comment     == Clamp(100 * cd.den - Abs(100 * cd.num - 15 * cd.den) * 5, 100 * cd.den)
        lv          == m.LineLengthVariance
        linevar     == Clamp(30 * lv.den - lv.num, 30 * lv.den)
        er          == m.EmptyLineRatio
        emptyline   == Clamp(100 * er.den - Abs(100 * er.num - 15 * er.den) * 5, 100 * er.den)
        al          == m.AvgLineLength
        linelen     == Clamp(45 * al.den - Abs(al.num - 45 * al.den), 45 * al.den)
    IN  (20 * naming + 20 * indentation + 20 * boilerplate + 10 * comment
            + 15 * linevar + 10 * emptyline + 5 * linelen) * (ONE \div (SIG * 100))

\* C21: AIConfidence is 0.20 naming + 0.20 indentation + 0.20 boilerplate
\* + 0.10 clamp(1 - |commentDensity - 0.15| * 5)
\* + 0.15 clamp(1 - lineLengthVariance / 30)
\* + 0.10 clamp(1 - |emptyLineRatio - 0.15| * 5)
\* + 0.05 clamp(1 - |avgLineLength - 45| / 45), every signal, the three raw
\* ones included, clamped to [0,1]; the seven weights sum to 1.0.
C21_StyleScoreFormula ==
    /\ DOMAIN weights = Range(weightKeys)
    /\ SumSeq([i \in 1..Len(weightKeys) |-> weights[weightKeys[i]]]) = 100
    /\ Analyzed => result.StyleScore = C21_Formula(Analyze(call.code))
    /\ probe.done => probe.conf = C21_Formula(probe.metrics)

\* Metrics built by hand whose naming consistency is 3/2 and whose
\* indentation consistency is -1/2: clamped to 1 and 0, the score is 0.30.
C21_Witness ==
    /\ probe.done
    /\ probe.metrics.NamingConsistency = Rat(3, 2)
    /\ probe.metrics.IndentationConsistency = Rat(-1, 2)
    /\ probe.metrics.BoilerplateRatio = Rat(1, 2)
    /\ probe.conf = Pct(30)

\* The catalog weight of the pattern called name, in percent.
WeightOf(name) == (CHOOSE p \in Range(patterns) : p.name = name).weight

\* Every match of the text lies in one line.
OneLineMatches(code) == \A i \in DOMAIN code : Braces(code[i]).open = 0

\* The occurrences of the pattern called name in a text whose matches lie
\* in one line each.
Occurrences(code, name) ==
    SumSeq([ i \in 1..Len(code) |->
               Len(SelectSeq(Line(code, i).pats, LAMBDA h : h.name = name)) ])

\* C22: the score of Detect is min(1.0, sum of Confidence over the
\* returned matches); the Confidence of a match is the catalog weight of
\* its pattern; every occurrence of every pattern is a match and adds its
\* full weight; with no match the score is 0 and the list is empty.
C22_ScoreIsCappedSum ==
    Analyzed =>
        LET ms    == result.Patterns
            total == SumSeq([ i \in 1..Len(ms) |-> ms[i].Confidence ])
        IN  /\ result.PatternScore = Pct(Min(100, total))
            /\ \A i \in DOMAIN ms : ms[i].Confidence = WeightOf(ms[i].Name)
            /\ OneLineMatches(call.code) =>
                  \A p \in Range(patterns) :
                      Cardinality({ i \in DOMAIN ms : ms[i].Name = p.name })
                          = Occurrences(call.code, p.name)
            /\ (/\ OneLineMatches(call.code)
                /\ \A p \in Range(patterns) : Occurrences(call.code, p.name) = 0)
                  => (ms = <<>> /\ result.PatternScore = 0)
            /\ ms = <<>> => result.PatternScore = 0

\* Two occurrences of one pattern and one of another, below the cap:
\* 0.12 + 0.12 + 0.06 = 0.30.
C22_Witness ==
    /\ Analyzed
    /\ call.code = <<"errchk", "errchk", "comment">>
    /\ Len(result.Patterns) = 3
    /\ result.PatternScore = Pct(30)

\* The place of a pattern in the catalog.
CatalogIndex(name) == CHOOSE k \in 1..Len(patterns) : patterns[k].name = name

\* A line on which a match of the pattern called name can start: it has a
\* match of its own or leaves the pattern open.
StartsOn(code, l, name) ==
    \/ \E h \in Range(Line(code, l).pats) : h.name = name
    \/ name = OpenPattern /\ Braces(code[l]).open > 0

\* A line on which a match of the pattern called name can end.
EndsOn(code, l, name) ==
    \/ \E h \in Range(Line(code, l).pats) : h.name = name
    \/ name = OpenPattern /\ Braces(code[l]).close > 0

\* C23: for every PatternMatch, LineStart is 1 plus the newlines before
\* the first character of the match and LineEnd 1 plus the newlines before
\* its end: the match starts on line LineStart and ends on line LineEnd,
\* and 1 <= LineStart <= LineEnd <= LinesOfCode; the matches are listed in
\* catalog order of their pattern and, within a pattern, in increasing
\* text position.
C23_MatchLinesAndOrder ==
    Analyzed =>
        LET ms == result.Patterns
        IN  /\ \A i \in DOMAIN ms :
                  /\ 1 <= ms[i].LineStart
                  /\ ms[i].LineStart <= ms[i].LineEnd
                  /\ ms[i].LineEnd <= result.LinesOfCode
                  /\ StartsOn(call.code, ms[i].LineStart, ms[i].Name)
                  /\ EndsOn(call.code, ms[i].LineEnd, ms[i].Name)
            /\ \A i \in DOMAIN ms, j \in DOMAIN ms :
                  i < j =>
                      /\ CatalogIndex(ms[i].Name) <= CatalogIndex(ms[j].Name)
                      /\ ms[i].Name = ms[j].Name => ms[i].LineEnd <= ms[j].LineStart

\* An error check written over three lines: one match, from line 1 to
\* line 3.
C23_Witness ==
    /\ Analyzed
    /\ call.code = <<"ifopen", "retline", "closeline">>
    /\ Len(result.Patterns) = 1
    /\ result.Patterns[1].LineStart = 1
    /\ result.Patterns[1].LineEnd = 3
    /\ result.LinesOfCode = 3

\* The identifier tokens of a text with property f: all of them
\* ("tokens"), the camelCase ones ("camel"), the snake_case ones ("snake").
Tokens(code, f) == SumSeq([ i \in 1..Len(code) |-> Line(code, i)[f] ])

\* C24: analyzeNaming returns 0.5 for fewer than 5 tokens and otherwise
\* max(camelCase, snake_case) / tokens, exactly 5 tokens included; no
\* token counts as both, so the result is within [0,1], and a token of
\* neither convention keeps the ratio below 1.
C24_NamingRatio ==
    Analyzed =>
        LET total == Tokens(call.code, "tokens")
            camel == Tokens(call.code, "camel")
            snake == Tokens(call.code, "snake")
            r     == analyzeNaming(call.code)
        IN  /\ total < 5 => r = Rat(1, 2)
            /\ total >= 5 =>
                  /\ r.den > 0
                  /\ r.num * total = Max(camel, snake) * r.den
                  /\ (camel + snake < total => r.num < r.den)
            /\ camel + snake <= total
            /\ 0 <= r.num /\ r.num <= r.den

\* A text of exactly 5 tokens, all camelCase: the ratio is 1.
C24_Witness ==
    /\ Analyzed
    /\ call.code = <<"errchk">>
    /\ Tokens(call.code, "tokens") = 5
    /\ analyzeNaming(call.code) = Rat(5, 5)

\* What ScanDirectory returns for a tree that holds only the file f: the
\* callback aggregates its Result once, then the percentage is computed.
DirectoryOfOne(f) ==
    LET st == Aggregate([res |-> ZeroScanResult, ai |-> 0, all |-> 0],
                        AnalyzeFile(f, threshold))
    IN  IF st.all > 0
        THEN [st.res EXCEPT !.AIPercentage = Rat(st.ai * 100, st.all)]
        ELSE st.res

\* C25: the ScanResult cmdDetect builds for a single-file path is the
\* aggregate of a directory that holds only that file: FilesScanned = 1,
\* AIDetected + HumanWritten = 1 with AIDetected = 1 exactly when the file
\* is flagged, MaxAIConfidence = the file's AIConfidence, Results = [that
\* Result], AIPercentage = 100 when the file is flagged and has lines and
\* 0 otherwise.
C25_SingleFileIsDirectoryOfOne ==
    (pc = "output" /\ args.path \in Files) =>
        LET r   == AnalyzeFile(args.path, threshold)
            dir == DirectoryOfOne(args.path)
        IN  /\ scanResult.FilesScanned = 1
            /\ scanResult.AIDetected + scanResult.HumanWritten = 1
            /\ scanResult.AIDetected = 1 <=> r.IsAIGenerated
            /\ scanResult.MaxAIConfidence = r.AIConfidence
            /\ scanResult.Results = <<r>>
            /\ scanResult.AIPercentage.num
                  = (IF r.IsAIGenerated /\ r.LinesOfCode > 0 THEN 100 ELSE 0)
                        * scanResult.AIPercentage.den
            /\ scanResult.AIPercentage.num * dir.AIPercentage.den
                  = dir.AIPercentage.num * scanResult.AIPercentage.den
            /\ [scanResult EXCEPT !.AIPercentage = Rat(0, 1)]
                  = [dir EXCEPT !.AIPercentage = Rat(0, 1)]

\* The number of Results with IsAIGenerated = flagged.
CountFlagged(rs, flagged) ==
    Cardinality({ i \in DOMAIN rs : rs[i].IsAIGenerated = flagged })

\* C26: after every file aggregated during a walk, and in the returned
\* ScanResult, FilesScanned = len(Results) = AIDetected + HumanWritten,
\* AIDetected is the number of flagged Results and HumanWritten the number
\* of the others; the three counters never decrease.
C26_CountersMatchResults ==
    /\ [][pc = "walk" =>
            /\ scanResult'.FilesScanned >= scanResult.FilesScanned
            /\ scanResult'.AIDetected >= scanResult.AIDetected
            /\ scanResult'.HumanWritten >= scanResult.HumanWritten]_vars
    /\ [](InScanDirectory =>
            /\ scanResult.FilesScanned = Len(scanResult.Results)
            /\ scanResult.FilesScanned = scanResult.AIDetected + scanResult.HumanWritten
            /\ scanResult.AIDetected = CountFlagged(scanResult.Results, TRUE)
            /\ scanResult.HumanWritten = CountFlagged(scanResult.Results, FALSE))

\* A walk under way, files still to visit, after a flagged file and one
\* that is not flagged were aggregated.
C26_Witness ==
    /\ pc = "walk" /\ args.path \in Dirs
    /\ queue # <<>>
    /\ scanResult.AIDetected >= 1
    /\ scanResult.HumanWritten >= 1
    /\ scanResult.FilesScanned = 2


\* The root cannot be walked: it does not exist, or it is a directory
\* whose entries cannot be read.
RootFails == args.path \notin Paths \/ (args.path \in Dirs /\ args.path \in unreadable)

\* C27: ScanDirectory returns a nil error for every root: the callback
\* returns nil after every error and nothing but nil and SkipDir, so the
\* walk is never ended by an error and its error stays nil; a root that
\* does not exist or cannot be read gives the empty ScanResult
\* (FilesScanned 0, no Results, AIPercentage 0, MaxAIConfidence 0), and
\* ScanDirectory returns instead of failing.
C27_NilErrorForEveryRoot ==
    /\ walkErr = NilError
    /\ \A i \in DOMAIN visited : WalkFn(visited[i]) \in {NilError, SkipDir}
    /\ (pc = "output" /\ RootFails) =>
            /\ visited = <<args.path>>
            /\ scanResult.FilesScanned = 0
            /\ scanResult.Results = <<>>
            /\ scanResult.AIPercentage = Rat(0, 1)
            /\ scanResult.MaxAIConfidence = 0
            /\ scanResult.AIDetected = 0
            /\ scanResult.HumanWritten = 0

\* ScanDirectory has returned from a root that does not exist.
C27_Witness ==
    /\ pc = "output"
    /\ args.path = Missing
    /\ visited = <<Missing>>
    /\ walkErr = NilError
    /\ scanResult = ZeroScanResult


\* C28: one kind of evidence alone never flags a file at the default
\* threshold.  Where no catalog pattern matches, PatternScore is 0 and
\* AIConfidence is 0.45 * StyleScore, at most 0.45: the file is not flagged
\* at threshold 0.70 and its level is very_low or low.  Where StyleScore is
\* 0, AIConfidence is 0.55 * PatternScore, at most 0.55, and the file is not
\* flagged at threshold 0.70.
C28_OneEvidenceNeverFlags ==
    Analyzed =>
        /\ (result.Patterns = <<>>) <=> (result.PatternScore = 0)
        /\ result.PatternScore = 0 =>
              /\ result.AIConfidence = (result.StyleScore * 45) \div 100
              /\ result.AIConfidence <= Pct(45)
              /\ result.ConfidenceLevel \in {"very_low", "low"}
              /\ call.threshold = NewDetectorThreshold => ~result.IsAIGenerated
        /\ result.StyleScore = 0 =>
              /\ result.AIConfidence = (result.PatternScore * 55) \div 100
              /\ result.AIConfidence <= Pct(55)
              /\ call.threshold = NewDetectorThreshold => ~result.IsAIGenerated

\* A text no pattern matches in, with a style score above 0.70, analyzed
\* at the default threshold and not flagged.
C28_Witness ==
    /\ Analyzed
    /\ result.Patterns = <<>>
    /\ result.StyleScore > Pct(70)
    /\ result.ConfidenceLevel = "low"
    /\ call.threshold = NewDetectorThreshold
    /\ ~result.IsAIGenerated

\* A text without any style signal and with a capped pattern score,
\* analyzed at the default threshold and not flagged.
C28_WitnessPatternOnly ==
    /\ Analyzed
    /\ result.StyleScore = 0
    /\ result.PatternScore = ONE
    /\ result.AIConfidence = Pct(55)
    /\ result.ConfidenceLevel = "medium"
    /\ call.threshold = NewDetectorThreshold
    /\ ~result.IsAIGenerated


\* The last step was a Get that returned a hit.
GetHit == cacheOp.op = "Get" /\ cacheOp.found

\* C29: after any sequence of Initialize, Store, Invalidate, Clear, file
\* modifications and passing time, Get(f) returns a hit (v, true) only if v
\* is the value of the most recent Store(f, v), no Invalidate(f) and no
\* Clear came after that Store, the content hash of the file is the one it
\* had at that Store, and less than 24 hours have passed since that Store;
\* in every other case Get reports a miss.  Invalidate(f) leaves the
\* entries of all other paths as they are.
C29_HitOnlyOfFreshStore ==
    /\ [](GetHit =>
            LET s == lastStore[cacheOp.path]
            IN  /\ s.stored
                /\ cacheOp.vulns = s.vulns
                /\ s.live
                /\ hashFile(cacheOp.path).hash = s.hash
                /\ (now - s.time) * TickHours < 24)
    /\ [][(cacheOp'.op = "Invalidate" /\ cacheOp'.n # cacheOp.n) =>
            \A d \in CacheDirs, f \in CachePaths \ {cacheOp'.path} :
                cacheFiles'[d][createCacheKey(f)] = cacheFiles[d][createCacheKey(f)]]_vars


\* A goroutine is at its read of cacheDir, at its write of cacheDir.
AtRead(g) == gor[g].pc = "read"
AtWrite(g) == gor[g].pc = "write"

\* C30: every read and every write of cacheDir happens while cacheMu is
\* held, the write lock for a write, so that no write of Initialize is
\* concurrent with the read of a Get, Store, Clear or Invalidate; and
\* before the first Initialize that succeeds each of Get, Store, Clear and
\* Invalidate returns the error "cache not initialized" and touches no
\* file.
C30_CacheDirOnlyUnderCacheMu ==
    /\ \A g \in Goroutines :
          /\ AtRead(g) => (g \in cacheMu.readers \/ cacheMu.writer = g)
          /\ AtWrite(g) => cacheMu.writer = g
    /\ \A g \in Goroutines : \A h \in Goroutines \ {g} : ~(AtWrite(g) /\ AtRead(h))
    /\ (cacheDir = "" /\ cacheOp.op \in LockedOps /\ \A g \in Goroutines : ~AtWrite(g)) =>
          /\ cacheOp.err = NotInitialized
          /\ ~cacheOp.touched

====
